---- MODULE Spec2Model ----
(***************************************************************************)
(* A model of the investment-committee pipeline of src/src/agents.py,      *)
(* with the data cleaning of src/src/data_sources.py that feeds it.        *)
(*                                                                         *)
(* Texts are sequences of tokens.  A token is one character of the text or *)
(* one word of it; " " and "\n" are the whitespace tokens (Python's \s),   *)
(* "-" is the bullet marker, every other token is a non-whitespace word.   *)
(***************************************************************************)
EXTENDS Integers, Sequences, FiniteSets, TLC

VARIABLES
    \* ---- the frame of one _ensure_valid call (agents.py 342-350)
    ev_pc,            \* "idle" | "check" | "repair" | "done" | "raised"
    section_name,     \* argument section_name
    required_fields,  \* argument required_fields: a sequence of labels (texts)
    min_bullets,      \* argument min_bullets
    draft,            \* argument draft
    text,             \* local text
    passes,           \* iterations of the for loop started so far
    repair_calls,     \* calls of _repair_section made by this call
    checked,          \* the check of lines 345-347 has been applied to text
    ev_ret,           \* the value returned (NoText before the return)
    events,           \* generation requests issued and sections returned
    requests,         \* what each call of _gemini_call for a section was given
    \* ---- run_committee (agents.py 357-635)
    rc_pc,            \* "off" | "generate" | "ensure" | "assemble" | "done" | "raised"
    sec,              \* index in SectionOrder of the section being produced
    outputs,          \* buffett, munger, ackman, cohen, dalio, cro
    cro_prompt,       \* the committee texts embedded in cro_prompt
    \* ---- market data (data_sources.py 191-224, agents.py 223-225, 242)
    yahoo_raw,        \* what the Yahoo chart endpoint answered for the ticker
    stooq_raw,        \* what Stooq answered
    aggs_raw,         \* what the Massive aggregates endpoint answered
    bench_raw,        \* what the Yahoo chart endpoint answered for the benchmark
    quote_raw,        \* what the Yahoo quote endpoint answered
    bundle,           \* the bundle fetch_market_bundle returns
    extracted,        \* the result of _extract_closes(bundle)
    stats,            \* stats of _make_factsheet
    bench_stats,      \* bench_stats of _make_factsheet
    factsheet,        \* the lines of the factsheet text
    report,           \* the blocks of the text run_committee returns
    gc_pc,            \* where _gemini_call is
    has_key,          \* GEMINI_API_KEY is set
    attempt,          \* attempt of _gemini_call
    gc_log,           \* what each attempt of generate_content did
    sleeps,           \* the arguments of time.sleep, in half seconds
    gc_ret,           \* what _gemini_call returned
    last_err,         \* the exception _gemini_call raised
    posted,           \* the calls of post_comment that main has made
    \* ---- one application of a pure function of agents.py to one input
    fn_pc,            \* "off" | "input" | "done"
    fn_in,            \* the argument
    fn_out            \* the function applied and what it returned

ev_vars == <<ev_pc, section_name, required_fields, min_bullets, draft, text,
             passes, repair_calls, checked, ev_ret>>

rc_vars == <<rc_pc, sec, outputs, cro_prompt>>

raw_vars == <<yahoo_raw, stooq_raw, aggs_raw, bench_raw, quote_raw>>

data_vars == <<bundle, extracted, stats, bench_stats, factsheet>>

gem_vars == <<gc_pc, has_key, attempt, gc_log, sleeps, gc_ret, last_err>>

fn_vars == <<fn_pc, fn_in, fn_out>>

vars ==
    <<ev_vars, events, requests, rc_vars, raw_vars, fn_vars, data_vars, report, gem_vars, posted>>

-----------------------------------------------------------------------------
(* Program constants.                                                      *)

\* agents.py 24: GEMINI_MAX_REPAIR_PASSES, default "2"
MAX_REPAIR_PASSES == 2

\* agents.py 94, 96, 102, 113 and 181: the fewest closes of a usable series
MIN_CLOSES == 10

\* agents.py 97, 103, 114 and data_sources.py 150: closes[-30:]
WINDOW == 30

\* data_sources.py 147: fewer clean Yahoo closes are an error payload
YAHOO_MIN_CLOSES == 5

-----------------------------------------------------------------------------
(* Bounds of the model.                                                    *)

\* longest draft handed to _ensure_valid, in tokens
MaxTextLen == 4
\* largest min_bullets handed to _ensure_valid
MaxMinBullets == 1
\* most rows a provider answers with
MaxRows == 46

-----------------------------------------------------------------------------
(* Texts.                                                                  *)

\* the value of a name that holds no text yet
NoText == <<"<unset>">>

Whitespace == {" ", "\n"}

\* the tokens the enumerated drafts are made of: a required label, another
\* word, the bullet marker, a blank and a line break
Alphabet == {"F", "x", "-", " ", "\n"}

RECURSIVE TextsOfLen(_)
TextsOfLen(n) ==
    IF n = 0 THEN {<<>>}
    ELSE {Append(t, c) : t \in TextsOfLen(n - 1), c \in Alphabet}

Texts(maxLen) == UNION {TextsOfLen(n) : n \in 0..maxLen}

\* str.strip(): the text without its leading and trailing whitespace
strip(t) ==
    LET solid == {i \in 1..Len(t) : t[i] \notin Whitespace}
    IN  IF solid = {} THEN <<>>
        ELSE LET lo == CHOOSE i \in solid : \A j \in solid : i <= j
                 hi == CHOOSE i \in solid : \A j \in solid : j <= i
             IN  SubSeq(t, lo, hi)

\* `f in text`: f occurs in text as a contiguous run of tokens
Contains(t, f) ==
    \E i \in 1..(Len(t) - Len(f) + 1) : SubSeq(t, i, i + Len(f) - 1) = f

\* the first index >= p of t that holds no whitespace (Len(t) + 1 if none)
SkipWs(t, p) ==
    LET solid == {i \in p..Len(t) : t[i] \notin Whitespace}
    IN  IF solid = {} THEN Len(t) + 1
        ELSE CHOOSE i \in solid : \A j \in solid : i <= j

\* (?m)^ : p is the start of the text or follows a line break
LineStart(t, p) == p = 1 \/ (p > 1 /\ p <= Len(t) + 1 /\ t[p - 1] = "\n")

\* ^\s*-\s+ matches at p: a line start, whitespace, the marker, whitespace
BulletAt(t, p) ==
    /\ LineStart(t, p)
    /\ LET q == SkipWs(t, p)
       IN  /\ q <= Len(t) /\ t[q] = "-"
           /\ q + 1 <= Len(t) /\ t[q + 1] \in Whitespace

\* the index after the match at p (\s+ is greedy)
BulletEnd(t, p) == SkipWs(t, SkipWs(t, p) + 1)

\* re.findall: the matches from left to right, each search resuming where
\* the previous match ended
RECURSIVE BulletsFrom(_, _)
BulletsFrom(t, pos) ==
    LET starts == {p \in pos..Len(t) : BulletAt(t, p)}
    IN  IF starts = {} THEN 0
        ELSE LET p == CHOOSE i \in starts : \A j \in starts : i <= j
             IN  1 + BulletsFrom(t, BulletEnd(t, p))

_count_bullets(block) == BulletsFrom(block, 1)

_has_fields(t, fields) == \A i \in 1..Len(fields) : Contains(t, fields[i])

\* a check that asks for one bullet more than min_bullets
CheckOk_StrictBullets(t, fields, mb) ==
    _has_fields(t, fields) /\ _count_bullets(t) > mb

\* a check that also holds the text to the hard rule of line 540
CheckOk_HardRules(t, fields, mb) ==
    /\ _has_fields(t, fields) /\ _count_bullets(t) >= mb
    /\ \/ "ok" \in DOMAIN stats /\ stats.ok
       \/ ~Contains(t, <<"IMPLEMENT">>)

\* lines 345-347 of _ensure_valid: ok_fields and ok_bullets
CheckOk(t, fields, mb) == _has_fields(t, fields) /\ _count_bullets(t) >= mb

-----------------------------------------------------------------------------
(* Provider answers.  A close is an integer (a float with that value); a   *)
(* cell of an answer is a number, null/missing, a non-numeric string, or,  *)
(* in a results list, an item that is no JSON object.                      *)

Num(v) == [t |-> "num", v |-> v]
NoneCell == [t |-> "none", v |-> 0]
BadCell == [t |-> "str", v |-> 0]
NonDictItem == [t |-> "nondict", v |-> 0]

\* the i-th close of an answer of n rows
Value(shape, i, n) ==
    CASE shape = "cycle" -> ((i - 1) % 3) + 1
      [] shape = "rise"  -> 1 + ((3 * (i - 1)) \div n)
      [] shape = "fall"  -> 3 - ((3 * (i - 1)) \div n)
      [] OTHER           -> 2

\* every third cell of a defective answer is unusable
Cell(shape, defect, i, n) ==
    IF defect = "clean" \/ i % 3 # 0 THEN Num(Value(shape, i, n))
    ELSE CASE defect = "null"    -> NoneCell
           [] defect = "text"    -> BadCell
           [] defect = "zero"    -> Num(0)
           [] defect = "neg"     -> Num(0 - Value(shape, i, n))
           [] OTHER              -> NonDictItem

Rows(shape, defect, n) == [i \in 1..n |-> Cell(shape, defect, i, n)]

\* the numbers of rows tried: MIN_CLOSES, MIN_CLOSES usable rows when every
\* third row is lost, and more than WINDOW usable rows even then
RowCounts == {MIN_CLOSES, (3 * MIN_CLOSES) \div 2, MaxRows}

ErrorAnswer == [kind |-> "error", rows |-> <<>>]
Answer(rows) == [kind |-> "rows", rows |-> rows]

\* a JSON answer that is an object without "results", and one that is a
\* non-empty array instead of an object
NoResultsAnswer == [kind |-> "noresults", rows |-> <<>>]
ArrayAnswer == [kind |-> "array", rows |-> <<>>]

YahooAnswers ==
    {ErrorAnswer, ArrayAnswer} \cup
    {Answer(Rows(k[1], k[2], n)) :
        k \in {<<"cycle", "clean">>, <<"rise", "null">>, <<"flat", "zero">>,
               <<"cycle", "text">>},
        n \in RowCounts}

StooqAnswers ==
    {ErrorAnswer} \cup
    {Answer(Rows(k[1], k[2], n)) :
        k \in {<<"fall", "clean">>, <<"cycle", "text">>, <<"cycle", "neg">>},
        n \in RowCounts}

AggsAnswers ==
    {ErrorAnswer, NoResultsAnswer, ArrayAnswer, Answer(<<>>)} \cup
    {Answer(Rows(k[1], k[2], n)) :
        k \in {<<"rise", "clean">>, <<"cycle", "zero">>, <<"cycle", "text">>,
               <<"flat", "nondict">>},
        n \in {MIN_CLOSES, MaxRows}}

BenchAnswers ==
    {ErrorAnswer} \cup
    {Answer(Rows("cycle", "clean", n)) : n \in {MIN_CLOSES - 1, MIN_CLOSES, MaxRows}} \cup
    {Answer(Rows("flat", "null", n)) : n \in RowCounts \ {MaxRows}}

\* the quote item: the fields fetch_quote_yahoo keeps that _make_factsheet
\* reads.  "" and 0 stand for a field that is absent or empty.
Quote(long, short, cap, cur, exch, sect, ind) ==
    [ has_data |-> TRUE, longName |-> long, shortName |-> short,
      marketCap |-> cap, currency |-> cur, exchange |-> exch,
      sector |-> sect, industry |-> ind ]
NoQuote ==
    [ has_data |-> FALSE, longName |-> "", shortName |-> "",
      marketCap |-> 0, currency |-> "", exchange |-> "",
      sector |-> "", industry |-> "" ]

QuoteAnswers ==
    { NoQuote,
      Quote("Tesla, Inc.", "Tesla", 700, "USD", "NMS",
            "Consumer Cyclical", "Auto Manufacturers"),
      Quote("", "Tesla", 0, "USD", "", "", "") }

-----------------------------------------------------------------------------
(* data_sources.py: what the bundle holds for each provider.               *)

Usable(c) == c.t = "num" /\ c.v > 0

\* s[-30:]
LastWindow(s) ==
    IF Len(s) > WINDOW THEN SubSeq(s, Len(s) - WINDOW + 1, Len(s)) ELSE s

\* fetch_prices_yahoo, data_sources.py 111-150.  zip(timestamps, closes)
\* reads a prefix of closes, which is again one of the answers.  A payload
\* without "closes" is an error payload.
fetch_prices_yahoo(raw) ==
    LET clean == SelectSeq(raw.rows, Usable)
    IN  IF raw.kind # "rows" \/ Len(clean) < YAHOO_MIN_CLOSES
        THEN [has_closes |-> FALSE, closes |-> <<>>]
        ELSE [has_closes |-> TRUE, closes |-> LastWindow(clean)]

\* fetch_prices_stooq, data_sources.py 81-108: the CSV text, or an error
\* payload without "csv".  The cells are those of the Close column.
fetch_prices_stooq(raw) ==
    IF raw.kind # "rows" THEN [has_csv |-> FALSE, csv |-> <<>>]
    ELSE [has_csv |-> TRUE, csv |-> raw.rows]

\* fetch_daily_aggs_last_30d, data_sources.py 42-74: the JSON as it came, or
\* {"error": ...}
fetch_daily_aggs_last_30d(raw) ==
    CASE raw.kind = "rows"  -> [is_dict |-> TRUE, results_is_list |-> TRUE,
                                results |-> raw.rows]
      [] raw.kind = "array" -> [is_dict |-> FALSE, results_is_list |-> FALSE,
                                results |-> <<>>]
      [] OTHER              -> [is_dict |-> TRUE, results_is_list |-> FALSE,
                                results |-> <<>>]

\* fetch_quote_yahoo, data_sources.py 153-181
fetch_quote_yahoo(raw) == raw

\* data_sources.py 192: BENCHMARK_TICKER, default "^GSPC"
BENCHMARK == "^GSPC"

\* fetch_market_bundle, data_sources.py 191-224
fetch_market_bundle(y, st, ag, bn, qt) ==
    [ fetched         |-> TRUE,
      yahoo_chart     |-> fetch_prices_yahoo(y),
      stooq           |-> fetch_prices_stooq(st),
      aggs_30d        |-> fetch_daily_aggs_last_30d(ag),
      yahoo_quote     |-> fetch_quote_yahoo(qt),
      benchmark       |-> BENCHMARK,
      benchmark_chart |-> fetch_prices_yahoo(bn) ]

-----------------------------------------------------------------------------
(* _extract_closes, agents.py 70-116.                                      *)

Floats(cells) == [i \in 1..Len(cells) |-> cells[i].v]

\* a parser that forgets the test val > 0
_parse_stooq_csv_KeepAll(csv) ==
    LET IsNum(c) == c.t = "num"
    IN  [i \in 1..Len(SelectSeq(csv, IsNum)) |-> SelectSeq(csv, IsNum)[i].v]

\* _parse_stooq_csv, lines 70-85: a missing cell is skipped, float() of a
\* non-numeric cell raises inside the try and the row is skipped
_parse_stooq_csv(csv) == Floats(SelectSeq(csv, Usable))

NotNone(c) == c.t # "none"
IsNumber(c) == c.t = "num"
IsDict(c) == c.t # "nondict"

Extracted(closes, source) ==
    [raised |-> FALSE, closes |-> closes, source |-> source]
ExtractRaised == [raised |-> TRUE, closes |-> <<>>, source |-> "raised"]

\* lines 92-97.  float(x) raises ValueError on a non-numeric string.
ExtractYahoo(b) ==
    LET y_closes == b.yahoo_chart.closes
        kept == SelectSeq(y_closes, NotNone)
    IN  IF b.yahoo_chart.has_closes /\ Len(y_closes) >= MIN_CLOSES
        THEN IF \E i \in 1..Len(kept) : ~IsNumber(kept[i])
             THEN <<"raise">>
             ELSE IF Len(kept) >= MIN_CLOSES
                  THEN <<"return", LastWindow(Floats(kept))>>
                  ELSE <<"next">>
        ELSE <<"next">>

\* lines 99-103
ExtractStooq(b) ==
    LET st_closes == _parse_stooq_csv(b.stooq.csv)
    IN  IF Len(st_closes) >= MIN_CLOSES
        THEN <<"return", LastWindow(st_closes)>>
        ELSE <<"next">>

\* lines 105-114.  aggs.get raises AttributeError when the JSON is not an
\* object, and r.get when an item of results is not an object.
ExtractAggs(b) ==
    LET aggs == b.aggs_30d
        closes == Floats(SelectSeq(aggs.results, Usable))
    IN  IF ~aggs.is_dict THEN <<"raise">>
        ELSE IF aggs.results_is_list /\ Len(aggs.results) > 0
        THEN IF \E i \in 1..Len(aggs.results) : ~IsDict(aggs.results[i])
             THEN <<"raise">>
             ELSE IF Len(closes) >= MIN_CLOSES
                  THEN <<"return", LastWindow(closes)>>
                  ELSE <<"next">>
        ELSE <<"next">>

\* the order with the paid aggregates tried first
SourceOrder_PaidFirst == <<"massive_aggs_30d", "yahoo_chart", "stooq">>

\* the order with the Stooq CSV tried before the Yahoo chart
SourceOrder_StooqFirst == <<"stooq", "yahoo_chart", "massive_aggs_30d">>

\* lines 88-116: Yahoo, then Stooq, then the Massive aggregates
SourceOrder == <<"yahoo_chart", "stooq", "massive_aggs_30d">>

ExtractFrom(source, b) ==
    CASE source = "yahoo_chart" -> ExtractYahoo(b)
      [] source = "stooq"       -> ExtractStooq(b)
      [] OTHER                  -> ExtractAggs(b)

RECURSIVE ExtractIn(_, _, _)
ExtractIn(order, k, b) ==
    IF k > Len(order) THEN Extracted(<<>>, "none")
    ELSE LET r == ExtractFrom(order[k], b)
         IN  CASE r[1] = "raise"  -> ExtractRaised
               [] r[1] = "return" -> Extracted(r[2], order[k])
               [] OTHER           -> ExtractIn(order, k + 1, b)

_extract_closes(b) == ExtractIn(SourceOrder, 1, b)

-----------------------------------------------------------------------------
(* The statistics, agents.py 119-216.  Closes are integers and every       *)
(* statistic is kept exact, as a fraction <<numerator, denominator>> with  *)
(* a positive denominator; None is NoneRat.  The annualized volatility is  *)
(* kept as its square, vol_daily^2 * 252.                                  *)

NoneRat == <<0, 0>>
IsNone(q) == q[2] = 0
RatLess(a, b) == a[1] * b[2] < b[1] * a[2]
RatSub(a, b) == <<a[1] * b[2] - b[1] * a[2], a[2] * b[2]>>

RECURSIVE Gcd(_, _)
Gcd(a, b) == IF b = 0 THEN a ELSE Gcd(b, a % b)
Lcm(a, b) == (a \div Gcd(a, b)) * b

RECURSIVE SumSeq(_)
SumSeq(q) == IF q = <<>> THEN 0 ELSE q[1] + SumSeq(Tail(q))

SeqMax(q) == CHOOSE x \in {q[i] : i \in 1..Len(q)} :
                 \A i \in 1..Len(q) : q[i] <= x
SeqMin(q) == CHOOSE x \in {q[i] : i \in 1..Len(q)} :
                 \A i \in 1..Len(q) : x <= q[i]

\* the common denominator of the daily returns: the least common multiple
\* of the positive closes that a return divides by
RECURSIVE ReturnScale(_, _)
ReturnScale(closes, i) ==
    IF i >= Len(closes) THEN 1
    ELSE IF closes[i] > 0 THEN Lcm(closes[i], ReturnScale(closes, i + 1))
         ELSE ReturnScale(closes, i + 1)

\* _daily_returns_from_closes, lines 119-126: cur / prev - 1 where prev > 0,
\* each return as its numerator over ReturnScale(closes, 1)
_daily_returns_from_closes(closes) ==
    LET d == ReturnScale(closes, 1)
        has == {i \in 2..Len(closes) : closes[i - 1] > 0}
        idx == SelectSeq([i \in 1..Len(closes) |-> i],
                         LAMBDA i : i \in has)
    IN  [k \in 1..Len(idx) |->
            ((closes[idx[k]] - closes[idx[k] - 1]) * d) \div closes[idx[k] - 1]]

\* lines 134-139: the running peak and the lowest p / peak - 1 so far
RECURSIVE DrawdownFrom(_, _, _, _)
DrawdownFrom(closes, i, peak, mdd) ==
    IF i > Len(closes) THEN mdd
    ELSE LET p == closes[i]
             pk == IF p > peak THEN p ELSE peak
             dd == <<p - pk, pk>>
         IN  DrawdownFrom(closes, i + 1, pk,
                          IF RatLess(dd, mdd) THEN dd ELSE mdd)

\* a drawdown that is content with two closes
_max_drawdown_TwoPoints(closes) ==
    IF Len(closes) < 2 THEN NoneRat
    ELSE DrawdownFrom(closes, 2, closes[1], <<0, 1>>)

\* _max_drawdown, lines 129-140
_max_drawdown(closes) ==
    IF Len(closes) < 3 THEN NoneRat
    ELSE DrawdownFrom(closes, 2, closes[1], <<0, 1>>)

\* _best_worst_day, lines 143-146
_best_worst_day(daily, d) ==
    IF daily = <<>> THEN <<NoneRat, NoneRat>>
    ELSE << <<SeqMax(daily), d>>, <<SeqMin(daily), d>> >>

\* lines 187-192: the sample variance of the daily returns times 252
VolAnnualSq(daily, d) ==
    LET m == Len(daily)
        total == SumSeq(daily)
        dev == [k \in 1..m |-> (m * daily[k] - total) * (m * daily[k] - total)]
    IN  IF m >= 2 THEN <<252 * SumSeq(dev), m * m * (m - 1) * d * d>>
        ELSE NoneRat

\* regimes without the threshold of line 198
Regime_NoNormal(volsq) ==
    IF IsNone(volsq) THEN "UNKNOWN"
    ELSE IF volsq[1] <= (4 * volsq[2] - 1) \div 25 THEN "CALM"
    ELSE "ELEVATED"

\* lines 194-201: vol_annual < 0.25 and vol_annual < 0.40, on the squares
Regime(volsq) ==
    IF IsNone(volsq) THEN "UNKNOWN"
    ELSE IF volsq[1] <= (volsq[2] - 1) \div 16 THEN "CALM"
    ELSE IF volsq[1] <= (4 * volsq[2] - 1) \div 25 THEN "NORMAL"
    ELSE "ELEVATED"

\* statistics that are content with YAHOO_MIN_CLOSES closes
_calc_stats_Short(closes) ==
    IF Len(closes) < YAHOO_MIN_CLOSES THEN [ok |-> FALSE]
    ELSE [ ok         |-> TRUE,
           last_close |-> closes[Len(closes)],
           ret_30d    |-> <<closes[Len(closes)] - closes[1], closes[1]>>,
           n_points   |-> Len(closes) ]

\* _calc_stats, lines 180-216.  closes[-1] / closes[0] raises
\* ZeroDivisionError when the first close is 0.
_calc_stats(closes) ==
    IF Len(closes) < MIN_CLOSES THEN [ok |-> FALSE]
    ELSE IF closes[1] = 0 THEN [ok |-> FALSE, raised |-> TRUE]
    ELSE LET d == ReturnScale(closes, 1)
             daily == _daily_returns_from_closes(closes)
             volsq == VolAnnualSq(daily, d)
             bw == _best_worst_day(daily, d)
         IN  [ ok               |-> TRUE,
               last_close       |-> closes[Len(closes)],
               ret_30d          |-> <<closes[Len(closes)] - closes[1], closes[1]>>,
               vol_annual       |-> volsq,
               regime           |-> Regime(volsq),
               n_points         |-> Len(closes),
               max_drawdown_30d |-> _max_drawdown(closes),
               best_day         |-> bw[1],
               worst_day        |-> bw[2] ]

\* _make_factsheet line 225: _calc_stats(closes) if closes else {"ok": False}
SubjectStats(closes) ==
    IF closes # <<>> THEN _calc_stats(closes) ELSE [ok |-> FALSE]

\* _make_factsheet lines 239-242
BenchStats(b) ==
    LET bench_closes == IF b.benchmark_chart.has_closes
                        THEN b.benchmark_chart.closes ELSE <<>>
    IN  IF bench_closes # <<>> THEN _calc_stats(Floats(bench_closes))
        ELSE [ok |-> FALSE]

-----------------------------------------------------------------------------
(* _corr, _beta and _make_factsheet, agents.py 149-299.  A line of the     *)
(* factsheet is its label, the words of its value and the numbers they are *)
(* written from: a fraction <<numerator, denominator>> for a formatted     *)
(* number, <<cov, vx, vy>> for the correlation cov / sqrt(vx * vy), and    *)
(* <<>> for a value that is words only.                                    *)

TICKER == "TSLA"

Line(label, words, num) == [label |-> label, words |-> words, num |-> num]

Min2(a, b) == IF a < b THEN a ELSE b

\* x[-n:]
LastN(x, n) == SubSeq(x, Len(x) - n + 1, Len(x))

\* the sum of (a - mx) * (b - my) over zip(x, y), times n * n
CoMoment(x, y) ==
    LET n == Len(x)
        sx == SumSeq(x)
        sy == SumSeq(y)
    IN  SumSeq([k \in 1..n |-> (n * x[k] - sx) * (n * y[k] - sy)])

\* _corr, lines 149-162: None is <<>>
_corr(asset_rets, bench_rets) ==
    LET n == Min2(Len(asset_rets), Len(bench_rets))
        x == LastN(asset_rets, n)
        y == LastN(bench_rets, n)
    IN  IF n < 5 THEN <<>>
        ELSE IF CoMoment(x, x) <= 0 \/ CoMoment(y, y) <= 0 THEN <<>>
        ELSE <<CoMoment(x, y), CoMoment(x, x), CoMoment(y, y)>>

\* _beta, lines 165-177: cov / vb, with the returns over da and db
_beta(asset_rets, bench_rets, da, db) ==
    LET n == Min2(Len(asset_rets), Len(bench_rets))
        a == LastN(asset_rets, n)
        b == LastN(bench_rets, n)
    IN  IF n < 5 THEN <<>>
        ELSE IF CoMoment(b, b) <= 0 THEN <<>>
        ELSE <<CoMoment(a, b) * db, CoMoment(b, b) * da>>

\* line 252
DataQuality(st, source) ==
    IF st.ok
    THEN Line("DATA_QUALITY", <<"OK:", source, "with", "%d", "daily closes">>,
              <<st.n_points, 1>>)
    ELSE Line("DATA_QUALITY", <<"LOW: not enough daily closes">>, <<>>)

\* lines 227-235 and 255-267: the quote fields that are present and not empty
QuoteLines(b) ==
    LET yq == b.yahoo_quote
        name == IF yq.longName # "" THEN yq.longName ELSE yq.shortName
        Text(label, v) == IF yq.has_data /\ v # ""
                          THEN <<Line(label, <<v>>, <<>>)>> ELSE <<>>
    IN  Text("NAME", name) \o Text("EXCHANGE", yq.exchange)
        \o Text("CURRENCY", yq.currency) \o Text("SECTOR", yq.sector)
        \o Text("INDUSTRY", yq.industry)
        \o (IF yq.has_data /\ yq.marketCap # 0
            THEN <<Line("MARKET_CAP", <<"%s">>, <<yq.marketCap, 1>>)>>
            ELSE <<>>)

Percent(label, q) == <<Line(label, <<"*100", "%.1f", "%">>, q)>>
PercentIf(label, q) == IF IsNone(q) THEN <<>> ELSE Percent(label, q)

\* statistics lines that show a return of zero when the statistics are not ok
StatLines_ZeroReturn(st) ==
    IF ~st.ok THEN <<Line("RETURN_30D", <<"*100", "%.1f", "%">>, <<0, 1>>)>>
    ELSE <<>>

\* lines 271-283
StatLines(st) ==
    IF ~st.ok THEN <<>>
    ELSE <<Line("LAST_CLOSE", <<"%.2f">>, <<st.last_close, 1>>)>>
         \o Percent("RETURN_30D", st.ret_30d)
         \o (IF IsNone(st.vol_annual) THEN <<>>
             ELSE <<Line("VOLATILITY_ANNUALIZED",
                         <<"sqrt", "*100", "%.1f", "%">>, st.vol_annual)>>)
         \o <<Line("VOL_REGIME", <<st.regime>>, <<>>)>>
         \o PercentIf("MAX_DRAWDOWN_30D", st.max_drawdown_30d)
         \o PercentIf("BEST_DAY", st.best_day)
         \o PercentIf("WORST_DAY", st.worst_day)

\* lines 244-250 and 285-296
BenchLines(b, closes, st, bst) ==
    LET bench_closes == Floats(b.benchmark_chart.closes)
        asset_rets == _daily_returns_from_closes(closes)
        bench_rets == _daily_returns_from_closes(bench_closes)
        da == ReturnScale(closes, 1)
        db == ReturnScale(bench_closes, 1)
        both == st.ok /\ bst.ok
        corr == IF both THEN _corr(asset_rets, bench_rets) ELSE <<>>
        beta == IF both THEN _beta(asset_rets, bench_rets, da, db) ELSE <<>>
    IN  <<Line("BENCHMARK", <<b.benchmark>>, <<>>)>>
        \o (IF bst.ok
            THEN Percent("BENCHMARK_RETURN_30D", bst.ret_30d)
                 \o (IF both
                     THEN Percent("RELATIVE_RETURN_30D",
                                  RatSub(st.ret_30d, bst.ret_30d))
                     ELSE <<>>)
                 \o (IF corr # <<>>
                     THEN <<Line("CORRELATION_TO_BENCH", <<"%.2f">>, corr)>>
                     ELSE <<>>)
                 \o (IF beta # <<>>
                     THEN <<Line("BETA_TO_BENCH", <<"%.2f">>, beta)>>
                     ELSE <<>>)
            ELSE <<Line("BENCHMARK_DATA", <<"LOW">>, <<>>)>>)

\* _make_factsheet, lines 223-299: the lines that "\n".join(facts) joins
_make_factsheet(ticker, b, ex, st, bst) ==
    <<Line("TICKER", <<ticker>>, <<>>)>>
    \o QuoteLines(b)
    \o <<DataQuality(st, ex.source)>>
    \o StatLines(st)
    \o BenchLines(b, ex.closes, st, bst)

-----------------------------------------------------------------------------
(* The data stage as steps: main line 158, then _make_factsheet.           *)

NoBundle == [fetched |-> FALSE]
NoExtract == [raised |-> FALSE, closes |-> <<>>, source |-> "unset"]
NoStats == [unset |-> TRUE]
NoFacts == <<>>
NoReport == <<>>
NoResult == [fn |-> "none"]
NoPrompt == [factsheet |-> <<>>, committee |-> <<>>]

\* data_sources.py 120-121: j.get("error") raises AttributeError when the
\* chart endpoint answers with JSON that is not an object, and the exception
\* leaves fetch_prices_yahoo and fetch_market_bundle
FetchRaises(y, bn) == y.kind = "array" \/ bn.kind = "array"

\* a call of post_comment: what the comment says, and whether the call
\* returned (delivered) or raised
Notice(kind, words, error, part, of, body, delivered) ==
    [ kind |-> kind, words |-> words, error |-> error, part |-> part,
      of |-> of, body |-> body, delivered |-> delivered ]

\* main lines 159-167: the notice of the except branch of the fetch
FetchFailedNotice(delivered) ==
    Notice("failure", <<"Data fetch failed for", TICKER>>, "AttributeError",
           0, 0, <<>>, delivered)

\* main line 158: bundle = fetch_market_bundle(ticker)
MainFetch ==
    /\ rc_pc = "fetch"
    /\ ~FetchRaises(yahoo_raw, bench_raw)
    /\ bundle' = fetch_market_bundle(yahoo_raw, stooq_raw, aggs_raw, bench_raw,
                                   quote_raw)
    /\ rc_pc' = "extract"
    /\ UNCHANGED <<extracted, stats, bench_stats, factsheet>>

\* main lines 157-167: fetch_market_bundle raises, the failure notice is
\* posted and main returns; if post_comment raises, main ends with that
\* exception
MainFetchRaises ==
    /\ rc_pc = "fetch"
    /\ FetchRaises(yahoo_raw, bench_raw)
    /\ \E delivered \in BOOLEAN :
          /\ posted' = Append(posted, FetchFailedNotice(delivered))
          /\ rc_pc' = IF delivered THEN "returned" ELSE "crashed"
    /\ UNCHANGED <<bundle, extracted, stats, bench_stats, factsheet>>

\* _make_factsheet line 224: closes, source = _extract_closes(bundle)
MakeExtract ==
    /\ rc_pc = "extract"
    /\ ~_extract_closes(bundle).raised
    /\ extracted' = _extract_closes(bundle)
    /\ rc_pc' = "stats"
    /\ UNCHANGED <<bundle, stats, bench_stats, factsheet>>

\* line 224 raises, and the exception leaves run_committee
MakeExtractRaises ==
    /\ rc_pc = "extract"
    /\ _extract_closes(bundle).raised
    /\ extracted' = _extract_closes(bundle)
    /\ rc_pc' = "raised"
    /\ UNCHANGED <<bundle, stats, bench_stats, factsheet>>

\* lines 225 and 242: stats and bench_stats
MakeStats ==
    /\ rc_pc = "stats"
    /\ stats' = SubjectStats(extracted.closes)
    /\ bench_stats' = BenchStats(bundle)
    /\ rc_pc' = "facts"
    /\ UNCHANGED <<bundle, extracted, factsheet>>

\* lines 244-299, and run_committee line 358 has its factsheet
MakeFacts ==
    /\ rc_pc = "facts"
    /\ factsheet' = _make_factsheet(TICKER, bundle, extracted, stats, bench_stats)
    /\ rc_pc' = "generate"
    /\ UNCHANGED <<bundle, extracted, stats, bench_stats>>

-----------------------------------------------------------------------------
(* _client and _gemini_call, agents.py 31-63.                              *)

\* line 15
MAX_RETRIES == 5

\* line 16: BACKOFF_BASE_SECONDS is 1.5, three half seconds
BACKOFF_BASE_HALF_SECONDS == 3

\* line 57: the markers looked for in str(e).lower()
TransientMarkers ==
    { <<"429">>, <<"rate">>, <<"quota">>, <<"timeout">>, <<"503">>,
      <<"unavailable">>, <<"internal">> }

\* an exception of generate_content: the class of the failure and
\* str(e).lower(), cut into pieces where a marker could match
Failure(class, msg) == [ok |-> FALSE, class |-> class, msg |-> msg, text |-> <<>>]

\* a response of generate_content with its text
Response(raw) == [ok |-> TRUE, class |-> "none", msg |-> <<>>, text |-> raw]

\* the failures tried: a rate limit, a temporary unavailability, a rejected
\* request, and the 404 of a model name that the API does not serve:
\* "... is not found for api version v1beta, or is not supported for
\* generatecontent."
Failures ==
    { Failure("rate_limit", <<"429", " resource_exhausted">>),
      Failure("unavailable", <<"503", " ", "unavailable">>),
      Failure("invalid_argument", <<"400 invalid_argument">>),
      Failure("not_found",
              <<"404 not_found. not supported for gene", "rate", "content.">>) }

Responses == { Response(<<" ", "x", "\n">>), Response(<<>>) }

\* line 54: (getattr(resp, "text", None) or "").strip()
GeminiText(raw) == strip(raw)

\* line 57
transient(msg) == \E x \in TransientMarkers : Contains(msg, x)

RECURSIVE Pow2(_)
Pow2(n) == IF n = 0 THEN 1 ELSE 2 * Pow2(n - 1)

NoErr == Failure("none", <<>>)
MissingKey == Failure("RuntimeError", <<"missing gemini_api_key.">>)

GeminiOff ==
    /\ gc_pc = "off" /\ has_key = FALSE /\ attempt = 0 /\ gc_log = <<>>
    /\ sleeps = <<>> /\ gc_ret = NoText /\ last_err = NoErr

\* lines 31-35 and 39: the client is made
GcClient ==
    /\ gc_pc = "client"
    /\ has_key
    /\ gc_pc' = "attempt"
    /\ UNCHANGED <<has_key, attempt, gc_log, sleeps, gc_ret, last_err>>

\* lines 33-34: RuntimeError("Missing GEMINI_API_KEY.")
GcClientRaises ==
    /\ gc_pc = "client"
    /\ ~has_key
    /\ gc_pc' = "raised"
    /\ last_err' = MissingKey
    /\ UNCHANGED <<has_key, attempt, gc_log, sleeps, gc_ret>>

\* lines 48-54: generate_content answers and its text is returned stripped
GcReturn ==
    /\ gc_pc = "attempt"
    /\ attempt <= MAX_RETRIES
    /\ \E r \in Responses :
          /\ gc_log' = Append(gc_log, r)
          /\ gc_ret' = GeminiText(r.text)
    /\ gc_pc' = "returned"
    /\ UNCHANGED <<has_key, attempt, sleeps, last_err>>

\* lines 55-60: generate_content raises, and the exception is raised again
GcRaise ==
    /\ gc_pc = "attempt"
    /\ attempt <= MAX_RETRIES
    /\ \E e \in Failures :
          /\ attempt >= MAX_RETRIES \/ ~transient(e.msg)
          /\ gc_log' = Append(gc_log, e)
          /\ last_err' = e
    /\ gc_pc' = "raised"
    /\ UNCHANGED <<has_key, attempt, sleeps, gc_ret>>

\* lines 55-61: generate_content raises, the call sleeps and the loop goes on
GcRetry ==
    /\ gc_pc = "attempt"
    /\ attempt <= MAX_RETRIES
    /\ \E e \in Failures :
          /\ ~(attempt >= MAX_RETRIES \/ ~transient(e.msg))
          /\ gc_log' = Append(gc_log, e)
          /\ last_err' = e
    /\ sleeps' = Append(sleeps, BACKOFF_BASE_HALF_SECONDS * Pow2(attempt))
    /\ attempt' = attempt + 1
    /\ UNCHANGED <<gc_pc, has_key, gc_ret>>

GeminiFrame ==
    UNCHANGED <<ev_vars, events, requests, rc_vars, raw_vars, fn_vars, data_vars, report, posted>>

InitGemini ==
    /\ gc_pc = "client" /\ has_key \in BOOLEAN /\ attempt = 0 /\ gc_log = <<>>
    /\ sleeps = <<>> /\ gc_ret = NoText /\ last_err = NoErr
    /\ yahoo_raw = ErrorAnswer /\ stooq_raw = ErrorAnswer
    /\ aggs_raw = ErrorAnswer /\ bench_raw = ErrorAnswer
    /\ quote_raw = NoQuote
    /\ bundle = NoBundle /\ extracted = NoExtract
    /\ stats = NoStats /\ bench_stats = NoStats
    /\ factsheet = NoFacts /\ report = NoReport /\ posted = <<>>
    /\ fn_pc = "off" /\ fn_in = <<>> /\ fn_out = NoResult
    /\ rc_pc = "off"
    /\ sec = 0 /\ outputs = <<>> /\ cro_prompt = NoPrompt
    /\ events = <<>> /\ requests = <<>>
    /\ ev_pc = "idle" /\ section_name = "" /\ required_fields = <<>>
    /\ min_bullets = 0 /\ draft = NoText /\ text = NoText
    /\ passes = 0 /\ repair_calls = 0 /\ checked = FALSE /\ ev_ret = NoText

NextGemini ==
    \/ GcClient /\ GeminiFrame
    \/ GcClientRaises /\ GeminiFrame
    \/ GcReturn /\ GeminiFrame
    \/ GcRaise /\ GeminiFrame
    \/ GcRetry /\ GeminiFrame

SpecGemini == InitGemini /\ [][NextGemini]_vars

-----------------------------------------------------------------------------
(* The sections of run_committee, agents.py 375-599, and the generation   *)
(* collaborator.                                                           *)

\* an order that asks for the synthesis before the last persona
SectionOrder_CroBeforeDalio ==
    <<"BUFFETT", "MUNGER", "ACKMAN", "COHEN", "CRO", "DALIO">>

\* the order of the calls in run_committee
SectionOrder == <<"BUFFETT", "MUNGER", "ACKMAN", "COHEN", "DALIO", "CRO">>

\* required_fields of each call of _ensure_valid; a label is one word of a
\* text, and no label of a section is part of another label of that section
RequiredFields(name) ==
    CASE name = "BUFFETT" ->
            << <<"BUFFETT RECOMMENDATION:">>, <<"CONVICTION LEVEL:">>,
               <<"TARGET ALLOCATION:">>, <<"TIME HORIZON:">>,
               <<"INVESTMENT THESIS:">>, <<"RISK FACTORS:">> >>
      [] name = "MUNGER" ->
            << <<"MUNGER ANALYSIS:">>, <<"RISK RATING:">>,
               <<"CIRCLE OF COMPETENCE:">>, <<"KEY MENTAL MODELS APPLIED:">>,
               <<"CONTRARIAN INSIGHTS:">> >>
      [] name = "ACKMAN" ->
            << <<"ACKMAN POSITION:">>, <<"CONVICTION LEVEL:">>,
               <<"CATALYST TIMELINE:">>, <<"TARGET POSITION SIZE:">>,
               <<"THESIS:">>, <<"CATALYSTS:">> >>
      [] name = "COHEN" ->
            << <<"COHEN TRADE:">>, <<"CONVICTION:">>, <<"POSITION SIZE:">>,
               <<"ENTRY:">>, <<"TAKE PROFIT:">>, <<"STOP LOSS:">>,
               <<"KEY DRIVERS:">> >>
      [] name = "DALIO" ->
            << <<"DALIO STRATEGY:">>, <<"MACRO ENVIRONMENT SCORE:">>,
               <<"DIVERSIFICATION VALUE:">>, <<"RISK CONTRIBUTION:">>,
               <<"ECONOMIC SEASON:">>, <<"MACRO ANALYSIS:">>,
               <<"PORTFOLIO FIT:">> >>
      [] OTHER ->
            << <<"PORTFOLIO DECISION:">>, <<"FINAL POSITION SIZE:">>,
               <<"RISK RATING:">>, <<"EXPECTED ANNUAL RETURN:">>,
               <<"MAXIMUM EXPECTED LOSS:">>, <<"COMMITTEE CONSENSUS:">>,
               <<"IMPLEMENTATION PLAN:">>, <<"RISK OFFICER SUMMARY:">> >>

\* min_bullets of each call of _ensure_valid
MinBullets(name) == IF name = "COHEN" THEN 12 ELSE 6

\* the section name of a call of _ensure_valid made on its own
GENERIC == "SECTION"

\* resp.text for a repair request of the generic section: nothing, the label
\* alone, a bullet alone, label and bullet, two bullets, and a padded answer
\* whose last bullet is empty
GenericReplies ==
    { <<>>,
      <<"F">>,
      <<"-", " ", "x">>,
      <<"F", "\n", "-", " ", "x">>,
      <<"F", "\n", "-", " ", "x", "\n", "-", " ", "x">>,
      <<" ", "F", "\n", "-", "\n">> }

\* the labels, one on each line
RECURSIVE LabelLines(_)
LabelLines(fields) ==
    IF fields = <<>> THEN <<>>
    ELSE fields[1] \o <<"\n">> \o LabelLines(Tail(fields))

RECURSIVE BulletLines(_)
BulletLines(n) ==
    IF n = 0 THEN <<>> ELSE <<"-", " ", "x", "\n">> \o BulletLines(n - 1)

\* resp.text for a section of run_committee: an answer with every label and
\* the bullets asked for, and a defective one, which lacks its last label
\* (BUFFETT, DALIO) or one bullet (COHEN, CRO)
CompleteReply(name) ==
    <<"\n">> \o LabelLines(RequiredFields(name)) \o BulletLines(MinBullets(name))

DefectiveReply(name) ==
    LET fields == RequiredFields(name)
    IN  IF name \in {"BUFFETT", "DALIO"}
        THEN LabelLines(SubSeq(fields, 1, Len(fields) - 1))
             \o BulletLines(MinBullets(name))
        ELSE LabelLines(fields) \o BulletLines(MinBullets(name) - 1)

\* the personas whose answers are tried both complete and defective; the
\* answers for MUNGER and ACKMAN are complete
DefectiveSections == {"BUFFETT", "COHEN", "DALIO"}

\* a synthesis answer in the output format of lines 567-575, with every
\* label and bullet, that declares a decision and a position size
SynthesisReply(decision, size) ==
    LET fields == RequiredFields("CRO")
    IN  <<"PORTFOLIO DECISION:", " ", decision, "\n",
          "FINAL POSITION SIZE:", " ", size, "\n">>
        \o LabelLines(SubSeq(fields, 3, Len(fields)))
        \o BulletLines(MinBullets("CRO"))

\* the answers to a synthesis request: one with every label and bullet that
\* declares a decision and a size against the hard rule of line 540 for LOW
\* data, and a defective one
SynthesisReplies == {SynthesisReply("IMPLEMENT", "5.0%"), DefectiveReply("CRO")}

RepliesFor(name) ==
    IF name = GENERIC THEN GenericReplies
    ELSE IF name = "CRO" THEN SynthesisReplies
    ELSE IF name \in DefectiveSections
    THEN {CompleteReply(name), DefectiveReply(name)}
    ELSE {CompleteReply(name)}

\* a first request whose prompt leaves the factsheet out
GenerateRequest_NoFacts(name, facts, committee) ==
    [ kind |-> "generate", section |-> name, factsheet |-> NoFacts,
      committee |-> committee ]

\* lines 363-373 and 535-576: the prompt of a section's first request
\* embeds the factsheet and, for CRO, the five committee texts
GenerateRequest(name, facts, committee) ==
    [ kind |-> "generate", section |-> name, factsheet |-> facts,
      committee |-> committee ]

\* lines 315-334: the prompt of a repair request embeds section_name,
\* min_bullets, factsheet, draft and required_fields; reply is what the call
\* returned (NoText when it raised)
RepairRequest(name, facts, d, fields, mb, reply) ==
    [ kind |-> "repair", section |-> name, factsheet |-> facts, draft |-> d,
      required_fields |-> fields, min_bullets |-> mb, reply |-> reply ]

\* _repair_section lines 335-339: _gemini_call(...).strip()
_repair_section(raw) == strip(GeminiText(raw))

-----------------------------------------------------------------------------
(* _ensure_valid, agents.py 342-350.                                       *)

\* a loop that gives up after one iteration fewer than the budget
RepairLoopRange_Short == MAX_REPAIR_PASSES - 1

\* line 344: range(MAX_REPAIR_PASSES + 1)
RepairLoopRange == MAX_REPAIR_PASSES + 1

\* line 343: text = (draft or "").strip()
EnsureEnter(name, d, fields, mb) ==
    /\ ev_pc' = "check"
    /\ section_name' = name
    /\ required_fields' = fields
    /\ min_bullets' = mb
    /\ draft' = d
    /\ text' = strip(d)
    /\ passes' = 0
    /\ repair_calls' = 0
    /\ checked' = FALSE
    /\ ev_ret' = NoText

\* lines 345-348: the check passes and text is returned
EnsureCheckPass ==
    /\ ev_pc = "check"
    /\ passes < RepairLoopRange
    /\ CheckOk(text, required_fields, min_bullets)
    /\ ev_pc' = "done"
    /\ checked' = TRUE
    /\ ev_ret' = text
    /\ events' = Append(events, <<"returned", section_name>>)
    /\ UNCHANGED <<requests, section_name, required_fields, min_bullets, draft, text,
                   passes, repair_calls>>

\* a loop that goes to line 349 whatever the check says
EnsureCheckFail_Unchecked ==
    /\ ev_pc = "check"
    /\ passes < RepairLoopRange
    /\ ev_pc' = "repair"
    /\ checked' = TRUE
    /\ UNCHANGED <<section_name, required_fields, min_bullets, draft, text,
                   passes, repair_calls, ev_ret, events, requests>>

\* lines 345-347: the check fails, line 349 is next
EnsureCheckFail ==
    /\ ev_pc = "check"
    /\ passes < RepairLoopRange
    /\ ~CheckOk(text, required_fields, min_bullets)
    /\ ev_pc' = "repair"
    /\ checked' = TRUE
    /\ UNCHANGED <<section_name, required_fields, min_bullets, draft, text,
                   passes, repair_calls, ev_ret, events, requests>>

\* a repair that sends the draft of line 342 every time
EnsureRepair_OriginalDraft ==
    /\ ev_pc = "repair"
    /\ \E raw \in RepliesFor(section_name) :
          /\ text' = _repair_section(raw)
          /\ requests' = Append(requests,
                 RepairRequest(section_name, factsheet, strip(draft),
                               required_fields, min_bullets,
                               _repair_section(raw)))
    /\ ev_pc' = "check"
    /\ passes' = passes + 1
    /\ repair_calls' = repair_calls + 1
    /\ checked' = FALSE
    /\ events' = Append(events, <<"repair", section_name>>)
    /\ UNCHANGED <<section_name, required_fields, min_bullets, draft, ev_ret>>

\* line 349: text = _repair_section(...), and the iteration ends
EnsureRepair ==
    /\ ev_pc = "repair"
    /\ \E raw \in RepliesFor(section_name) :
          /\ text' = _repair_section(raw)
          /\ requests' = Append(requests,
                 RepairRequest(section_name, factsheet, text, required_fields,
                               min_bullets, _repair_section(raw)))
    /\ ev_pc' = "check"
    /\ passes' = passes + 1
    /\ repair_calls' = repair_calls + 1
    /\ checked' = FALSE
    /\ events' = Append(events, <<"repair", section_name>>)
    /\ UNCHANGED <<section_name, required_fields, min_bullets, draft, ev_ret>>

\* line 349: _gemini_call raises and the exception leaves _ensure_valid
EnsureRepairRaises ==
    /\ ev_pc = "repair"
    /\ ev_pc' = "raised"
    /\ repair_calls' = repair_calls + 1
    /\ events' = Append(events, <<"repair", section_name>>)
    /\ requests' = Append(requests,
           RepairRequest(section_name, factsheet, text, required_fields,
                         min_bullets, NoText))
    /\ UNCHANGED <<section_name, required_fields, min_bullets, draft, text,
                   passes, checked, ev_ret>>

\* line 350: the loop is over and text is returned as it is
EnsureFallThrough ==
    /\ ev_pc = "check"
    /\ passes >= RepairLoopRange
    /\ ev_pc' = "done"
    /\ ev_ret' = text
    /\ events' = Append(events, <<"returned", section_name>>)
    /\ UNCHANGED <<requests, section_name, required_fields, min_bullets, draft, text,
                   passes, repair_calls, checked>>

-----------------------------------------------------------------------------
(* _ensure_valid called on its own, for every draft up to MaxTextLen.      *)

FieldChoices == { <<>>, << <<"F">> >> }

InitEnsure ==
    /\ ev_pc = "check"
    /\ section_name = GENERIC
    /\ required_fields \in FieldChoices
    /\ min_bullets \in 0..MaxMinBullets
    /\ draft \in Texts(MaxTextLen)
    /\ text = strip(draft)
    /\ passes = 0
    /\ repair_calls = 0
    /\ checked = FALSE
    /\ ev_ret = NoText
    /\ events = <<>> /\ requests = <<>>
    /\ rc_pc = "off"
    /\ sec = 0
    /\ outputs = <<>>
    /\ cro_prompt = NoPrompt
    /\ yahoo_raw = ErrorAnswer /\ stooq_raw = ErrorAnswer
    /\ aggs_raw = ErrorAnswer /\ bench_raw = ErrorAnswer
    /\ quote_raw = NoQuote
    /\ bundle = NoBundle /\ extracted = NoExtract
    /\ stats = NoStats /\ bench_stats = NoStats
    /\ factsheet = NoFacts /\ report = NoReport /\ posted = <<>>
    /\ fn_pc = "off" /\ fn_in = <<>> /\ fn_out = NoResult
    /\ GeminiOff

NextEnsure ==
    \/ EnsureCheckPass /\ UNCHANGED <<rc_vars, raw_vars, fn_vars, data_vars, report, gem_vars, posted>>
    \/ EnsureCheckFail /\ UNCHANGED <<rc_vars, raw_vars, fn_vars, data_vars, report, gem_vars, posted>>
    \/ EnsureRepair /\ UNCHANGED <<rc_vars, raw_vars, fn_vars, data_vars, report, gem_vars, posted>>
    \/ EnsureRepairRaises /\ UNCHANGED <<rc_vars, raw_vars, fn_vars, data_vars, report, gem_vars, posted>>
    \/ EnsureFallThrough /\ UNCHANGED <<rc_vars, raw_vars, fn_vars, data_vars, report, gem_vars, posted>>

SpecEnsure == InitEnsure /\ [][NextEnsure]_vars

-----------------------------------------------------------------------------
(* Claims about _ensure_valid, checked under SpecEnsure.                   *)

\* a text with every required label and at least mb bulleted lines
Compliant(t, fields, mb) == _has_fields(t, fields) /\ _count_bullets(t) >= mb

\* the call has returned a text that still fails the check: the draft and
\* every repair output failed it
ReturnedFailing ==
    ev_pc = "done" /\ ~Compliant(ev_ret, required_fields, min_bullets)

\* C1: a section whose draft and every repair output fail the check gets
\* exactly MAX_REPAIR_PASSES repair calls before its text is returned, and
\* no call of _ensure_valid issues more than MAX_REPAIR_PASSES repair calls.
C1_ExactlyMaxRepairCalls ==
    /\ repair_calls <= MAX_REPAIR_PASSES
    /\ ReturnedFailing => repair_calls = MAX_REPAIR_PASSES

C3_RepairThenRecheck ==
    /\ (ev_pc \in {"done", "repair"} /\ repair_calls > 0) => checked
    /\ (ev_pc = "done" /\ repair_calls = 1) =>
           Compliant(ev_ret, required_fields, min_bullets)

-----------------------------------------------------------------------------
(* The data stage on its own, for every combination of provider answers.   *)

InitData ==
    /\ yahoo_raw \in YahooAnswers
    /\ stooq_raw \in StooqAnswers
    /\ aggs_raw \in AggsAnswers
    /\ bench_raw \in BenchAnswers
    /\ quote_raw \in QuoteAnswers
    /\ bundle = NoBundle /\ extracted = NoExtract
    /\ stats = NoStats /\ bench_stats = NoStats
    /\ factsheet = NoFacts /\ report = NoReport /\ posted = <<>>
    /\ fn_pc = "off" /\ fn_in = <<>> /\ fn_out = NoResult
    /\ GeminiOff
    /\ rc_pc = "fetch"
    /\ sec = 0 /\ outputs = <<>> /\ cro_prompt = NoPrompt
    /\ events = <<>> /\ requests = <<>>
    /\ ev_pc = "idle" /\ section_name = "" /\ required_fields = <<>>
    /\ min_bullets = 0 /\ draft = NoText /\ text = NoText
    /\ passes = 0 /\ repair_calls = 0 /\ checked = FALSE /\ ev_ret = NoText

DataFrame ==
    UNCHANGED <<ev_vars, events, requests, sec, outputs, cro_prompt, raw_vars, fn_vars, report,
                gem_vars, posted>>

NextData ==
    \/ MainFetch /\ DataFrame
    \/ MainFetchRaises
          /\ UNCHANGED <<ev_vars, events, requests, sec, outputs, cro_prompt, raw_vars, fn_vars,
                         report, gem_vars>>
    \/ MakeExtract /\ DataFrame
    \/ MakeExtractRaises /\ DataFrame
    \/ MakeStats /\ DataFrame
    \/ MakeFacts /\ DataFrame

SpecData == InitData /\ [][NextData]_vars

-----------------------------------------------------------------------------
(* Claims about the data stage, checked under SpecData.                    *)

\* a close that counts: a number above zero
GoodClose(c) == c.t = "num" /\ c.v > 0

\* the usable closes a provider answered with, oldest first
UsableOf(raw) ==
    LET good == SelectSeq(raw.rows, GoodClose)
    IN  [i \in 1..Len(good) |-> good[i].v]

RawOf(source) ==
    CASE source = "yahoo_chart" -> yahoo_raw
      [] source = "stooq"       -> stooq_raw
      [] OTHER                  -> aggs_raw

Qualifies(source) == Len(UsableOf(RawOf(source))) >= MIN_CLOSES

\* _extract_closes has returned
ExtractReturned == extracted.source \notin {"unset", "raised"}

\* C6 as stated: the paid aggregates come first, then the free fallbacks.
C6_PaidSourceFirst ==
    ExtractReturned =>
        /\ Qualifies("massive_aggs_30d") =>
               extracted.source = "massive_aggs_30d"
        /\ extracted.source = "yahoo_chart" =>
               ~Qualifies("massive_aggs_30d")
        /\ extracted.source = "stooq" =>
               ~Qualifies("massive_aggs_30d") /\ ~Qualifies("yahoo_chart")
        /\ extracted.source = "none" =>
               \A src \in {"yahoo_chart", "stooq", "massive_aggs_30d"} :
                   ~Qualifies(src)

\* C6 amended: the Yahoo chart comes first: with at least 10 usable closes
\* it is returned as yahoo_chart whatever the other sources hold; Stooq is
\* returned only when Yahoo does not qualify, the paid aggregates only when
\* neither Yahoo nor Stooq qualifies, and ([], "none") only when no source
\* qualifies.
C6_YahooFirstPaidLast ==
    /\ (extracted.source # "unset" /\ Qualifies("yahoo_chart")) =>
           extracted.source = "yahoo_chart"
    /\ extracted.source = "stooq" =>
           ~Qualifies("yahoo_chart") /\ Qualifies("stooq")
    /\ extracted.source = "massive_aggs_30d" =>
           /\ ~Qualifies("yahoo_chart") /\ ~Qualifies("stooq")
           /\ Qualifies("massive_aggs_30d")
    /\ extracted.source = "none" =>
           \A src \in {"yahoo_chart", "stooq", "massive_aggs_30d"} :
               ~Qualifies(src)

\* Yahoo was returned although the paid aggregates qualify as well
C6_Witness ==
    /\ extracted.source = "yahoo_chart"
    /\ Qualifies("massive_aggs_30d") /\ Qualifies("stooq")

\* the order of preference that C23 states
Preference == <<"yahoo_chart", "stooq", "massive_aggs_30d">>

\* C23: the source _extract_closes returns supplies at least 10 usable
\* closes, and every source before it in the order Yahoo chart, Stooq CSV,
\* Massive aggregates supplies fewer than 10.
C23_LowerSourceOnlyAfterHigherFail ==
    ExtractReturned =>
        \A k \in 1..Len(Preference) :
            extracted.source = Preference[k] =>
                /\ Qualifies(Preference[k])
                /\ \A j \in 1..(k - 1) : ~Qualifies(Preference[j])

\* the aggregates were returned after Yahoo and Stooq had both failed to
\* supply 10 usable closes
C23_Witness ==
    /\ extracted.source = "massive_aggs_30d"
    /\ Len(extracted.closes) >= MIN_CLOSES
    /\ ~Qualifies("yahoo_chart") /\ ~Qualifies("stooq")

\* C7: _extract_closes raises for no bundle.
C7_ExtractNeverRaises == ~extracted.raised /\ rc_pc # "raised"

BenchCloses ==
    IF bundle.benchmark_chart.has_closes
    THEN bundle.benchmark_chart.closes ELSE <<>>

\* C9: for fewer than 10 closes the statistics are {ok: false} and nothing
\* else, and nothing is raised.
C9_ShortSeriesNotOk ==
    rc_pc = "facts" =>
        /\ Len(extracted.closes) < MIN_CLOSES => stats = [ok |-> FALSE]
        /\ Len(BenchCloses) < MIN_CLOSES => bench_stats = [ok |-> FALSE]

\* statistics were asked of a benchmark series of 5 to 9 closes
C9_Witness ==
    /\ rc_pc = "facts"
    /\ Len(BenchCloses) >= YAHOO_MIN_CLOSES /\ Len(BenchCloses) < MIN_CLOSES
    /\ bench_stats = [ok |-> FALSE]

\* the labels of the factsheet
FactLabels == {factsheet[i].label : i \in 1..Len(factsheet)}

FactLine(label) ==
    factsheet[CHOOSE i \in 1..Len(factsheet) : factsheet[i].label = label]

FactsBuilt == rc_pc = "generate"

StartsWithLow(line) == line.words[1] = "LOW: not enough daily closes"

\* the lines that state a return or a volatility as a number
ReturnOrVolatilityLabels ==
    {"RETURN_30D", "VOLATILITY_ANNUALIZED", "BENCHMARK_RETURN_30D",
     "RELATIVE_RETURN_30D"}

\* the lines that state a number computed from the subject's closes
SubjectNumberLabels ==
    {"LAST_CLOSE", "RETURN_30D", "VOLATILITY_ANNUALIZED", "MAX_DRAWDOWN_30D",
     "BEST_DAY", "WORST_DAY", "RELATIVE_RETURN_30D", "CORRELATION_TO_BENCH",
     "BETA_TO_BENCH"}

\* C12 as stated: when the subject's statistics are not ok, the factsheet
\* has a DATA_QUALITY line that starts with LOW and no line that states a
\* return or a volatility as a number.
C12_LowQualityNoReturnLine ==
    (FactsBuilt /\ ~stats.ok) =>
        /\ "DATA_QUALITY" \in FactLabels
        /\ StartsWithLow(FactLine("DATA_QUALITY"))
        /\ FactLabels \cap ReturnOrVolatilityLabels = {}

\* C12 amended: when the subject's statistics are not ok, the factsheet has
\* a DATA_QUALITY line that starts with LOW, no line computed from the
\* subject's closes, and a return line for the benchmark exactly when the
\* benchmark's statistics are ok.
C12_LowQualityNoSubjectNumbers ==
    (FactsBuilt /\ ~stats.ok) =>
        /\ Len(extracted.closes) < MIN_CLOSES
        /\ "DATA_QUALITY" \in FactLabels
        /\ StartsWithLow(FactLine("DATA_QUALITY"))
        /\ FactLabels \cap SubjectNumberLabels = {}
        /\ "BENCHMARK_RETURN_30D" \in FactLabels <=> bench_stats.ok

\* a factsheet of low quality that still shows the benchmark's return
C12_Witness ==
    /\ FactsBuilt /\ ~stats.ok
    /\ bench_stats.ok
    /\ "BENCHMARK_RETURN_30D" \in FactLabels
    /\ StartsWithLow(FactLine("DATA_QUALITY"))

\* the lines written from the quote metadata
QuoteLabels == {"NAME", "EXCHANGE", "CURRENCY", "SECTOR", "INDUSTRY", "MARKET_CAP"}

\* a factsheet shows what its data lacks: LOW data quality and no subject
\* number without ok statistics, BENCHMARK_DATA: LOW and no benchmark number
\* without ok benchmark statistics, and no quote line without quote data
InsufficiencyShown ==
    /\ ~stats.ok =>
          /\ StartsWithLow(FactLine("DATA_QUALITY"))
          /\ FactLabels \cap SubjectNumberLabels = {}
          /\ "VOL_REGIME" \notin FactLabels
    /\ ~bench_stats.ok =>
          /\ "BENCHMARK_DATA" \in FactLabels
          /\ FactLine("BENCHMARK_DATA").words = <<"LOW">>
          /\ "BENCHMARK_RETURN_30D" \notin FactLabels
    /\ ~bundle.yahoo_quote.has_data => FactLabels \cap QuoteLabels = {}

\* C24: _make_factsheet raises for no bundle, and the factsheet it returns
\* shows what the data lacks as LOW labels or absent lines.
C24_FactsheetNeverRaises ==
    /\ rc_pc # "raised"
    /\ FactsBuilt => InsufficiencyShown

-----------------------------------------------------------------------------
(* The statistics of agents.py 119-216 applied to one series of closes.    *)

\* the longest of the short series
MaxSeriesLen == 5

Flat(a, n) == [i \in 1..n |-> a]

\* every series of up to MaxSeriesLen closes between 1 and 3
ShortSeries == UNION {[1..n -> 1..3] : n \in 0..MaxSeriesLen}

\* the levels a quiet window trades at
Levels == {10, 20, 25}

\* a window that trades at one level and then moves by at most 2 on each of
\* its last one or two days
MovingSeries ==
    {Flat(a, MIN_CLOSES - 1) \o <<a + m>> : a \in Levels, m \in -2..2}
    \cup {Flat(a, MIN_CLOSES - 1) \o <<a + m, a + k>> :
              a \in Levels, m \in -1..1, k \in -2..2}

\* a window whose closes are 0.0 after the first day: _extract_closes keeps
\* every Yahoo close that is not None (line 96)
HaltedSeries == {<<a>> \o Flat(0, n) : a \in Levels, n \in {MIN_CLOSES - 1, MIN_CLOSES}}

Series == ShortSeries \cup MovingSeries \cup HaltedSeries

ApplyMaxDrawdown ==
    /\ fn_pc = "input"
    /\ fn_out' = [fn |-> "_max_drawdown", value |-> _max_drawdown(fn_in)]
    /\ fn_pc' = "done"
    /\ UNCHANGED fn_in

ApplyCalcStats ==
    /\ fn_pc = "input"
    /\ fn_out' = [fn |-> "_calc_stats", value |-> _calc_stats(fn_in)]
    /\ fn_pc' = "done"
    /\ UNCHANGED fn_in

StatsFrame ==
    UNCHANGED <<ev_vars, events, requests, rc_vars, raw_vars, data_vars, report, gem_vars, posted>>

InitStats ==
    /\ fn_pc = "input" /\ fn_in \in Series /\ fn_out = NoResult
    /\ ev_pc = "idle" /\ section_name = ""
    /\ required_fields = <<>> /\ min_bullets = 0
    /\ draft = NoText /\ text = NoText /\ passes = 0 /\ repair_calls = 0
    /\ checked = FALSE /\ ev_ret = NoText /\ events = <<>> /\ requests = <<>>
    /\ rc_pc = "off" /\ sec = 0 /\ outputs = <<>> /\ cro_prompt = NoPrompt
    /\ yahoo_raw = ErrorAnswer /\ stooq_raw = ErrorAnswer
    /\ aggs_raw = ErrorAnswer /\ bench_raw = ErrorAnswer /\ quote_raw = NoQuote
    /\ bundle = NoBundle /\ extracted = NoExtract
    /\ stats = NoStats /\ bench_stats = NoStats
    /\ factsheet = NoFacts /\ report = NoReport /\ posted = <<>>
    /\ GeminiOff

NextStats ==
    \/ ApplyMaxDrawdown /\ StatsFrame
    \/ ApplyCalcStats /\ StatsFrame

SpecStats == InitStats /\ [][NextStats]_vars

-----------------------------------------------------------------------------
(* Claims about the statistics.                                            *)

Positive(q) == \A i \in 1..Len(q) : q[i] > 0
NonDecreasing(q) == \A i \in 1..(Len(q) - 1) : q[i] <= q[i + 1]
DrawdownApplied == fn_pc = "done" /\ fn_out.fn = "_max_drawdown"
StatsApplied == fn_pc = "done" /\ fn_out.fn = "_calc_stats"

\* C13: _max_drawdown returns null for fewer than 3 points; for every series
\* of at least 3 positive closes it returns a value that is at most 0, and
\* exactly 0 when the series never decreases.
C13_MaxDrawdownNonPositive ==
    DrawdownApplied =>
        LET mdd == fn_out.value
        IN  /\ Len(fn_in) < 3 => mdd = NoneRat
            /\ (Len(fn_in) >= 3 /\ Positive(fn_in)) =>
                   /\ mdd[2] > 0
                   /\ mdd[1] <= 0
                   /\ NonDecreasing(fn_in) => mdd[1] = 0

\* a series of at least 3 positive closes that falls below an earlier peak
C13_Witness ==
    /\ DrawdownApplied
    /\ Len(fn_in) >= 3 /\ Positive(fn_in) /\ ~NonDecreasing(fn_in)
    /\ fn_out.value[2] > 0 /\ fn_out.value[1] < 0

\* a fraction in lowest terms
Lowest(q) ==
    IF q[2] = 0 THEN q
    ELSE LET g == Gcd(IF q[1] < 0 THEN -q[1] ELSE q[1], q[2])
         IN  <<q[1] \div g, q[2] \div g>>

\* the squares of the thresholds 0.25 and 0.40 of lines 196 and 198
CalmBelowSq == <<1, 16>>
NormalBelowSq == <<4, 25>>

\* C14: in every ok statistics record the regime is UNKNOWN exactly when
\* the annualised volatility is null, CALM exactly when it is below 0.25,
\* NORMAL exactly when it is at least 0.25 and below 0.40, and ELEVATED
\* exactly when it is at least 0.40.
C14_RegimeThresholds ==
    (StatsApplied /\ fn_out.value.ok) =>
        LET volsq == Lowest(fn_out.value.vol_annual)
            regime == fn_out.value.regime
            known == volsq[2] # 0
        IN  /\ regime = "UNKNOWN" <=> ~known
            /\ regime = "CALM" <=> (known /\ RatLess(volsq, CalmBelowSq))
            /\ regime = "NORMAL" <=>
                   /\ known
                   /\ ~RatLess(volsq, CalmBelowSq)
                   /\ RatLess(volsq, NormalBelowSq)
            /\ regime = "ELEVATED" <=>
                   (known /\ ~RatLess(volsq, NormalBelowSq))

\* an ok record whose volatility lies between the two thresholds
C14_Witness ==
    /\ StatsApplied /\ fn_out.value.ok
    /\ fn_out.value.vol_annual[2] # 0
    /\ ~RatLess(Lowest(fn_out.value.vol_annual), CalmBelowSq)
    /\ RatLess(Lowest(fn_out.value.vol_annual), NormalBelowSq)
    /\ fn_out.value.regime = "NORMAL"

-----------------------------------------------------------------------------
(* run_committee, agents.py 357-635, after main has fetched the bundle.    *)

\* lines 535-576: what cro_prompt embeds of the run
CroPrompt(facts, sections) == [factsheet |-> facts, committee |-> sections]

Block(title, body) == [title |-> title, body |-> body]

SectionTitle(name) == <<"===", name, "===">>

\* a header that says OK whatever the statistics are
ReportHeader_AlwaysOk(b, ex, st) ==
    Block(<<"##", TICKER, "Gemini Committee Report">>,
          <<"Data quality:", "OK",
            "Price source:", ex.source,
            "Benchmark:", b.benchmark,
            "Vol regime:", IF "regime" \in DOMAIN st THEN st.regime
                           ELSE "UNKNOWN">>)

\* lines 359-361 and 601-602
ReportHeader(b, ex, st) ==
    Block(<<"##", TICKER, "Gemini Committee Report">>,
          <<"Data quality:", IF st.ok THEN "OK" ELSE "LOW",
            "Price source:", ex.source,
            "Benchmark:", b.benchmark,
            "Vol regime:", IF "regime" \in DOMAIN st THEN st.regime
                           ELSE "UNKNOWN">>)

\* a report that shows DALIO before the other personas
Report_DalioFirst(b, ex, st, facts, sections) ==
    << ReportHeader(b, ex, st),
       Block(<<>>, sections[6]),
       Block(<<"---">>, <<>>),
       Block(<<"##", "Full Committee Outputs">>, <<>>),
       Block(<<"===", "FACTSHEET (CLEAN INPUT)", "===">>, facts),
       Block(SectionTitle(SectionOrder[5]), sections[5]) >>
    \o [i \in 1..4 |-> Block(SectionTitle(SectionOrder[i]), sections[i])]

\* lines 604-635: the header, cro, the rule, and full_committee
Report(b, ex, st, facts, sections) ==
    << ReportHeader(b, ex, st),
       Block(<<>>, sections[6]),
       Block(<<"---">>, <<>>),
       Block(<<"##", "Full Committee Outputs">>, <<>>),
       Block(<<"===", "FACTSHEET (CLEAN INPUT)", "===">>, facts) >>
    \o [i \in 1..5 |-> Block(SectionTitle(SectionOrder[i]), sections[i])]

\* lines 375, 406, 435, 466, 501 and 578: the request for a section's draft
\* returns, and _ensure_valid is entered with it
RcGenerate ==
    /\ rc_pc = "generate"
    /\ LET name == SectionOrder[sec + 1]
       IN  /\ \E raw \in RepliesFor(name) :
                 EnsureEnter(name, GeminiText(raw), RequiredFields(name),
                             MinBullets(name))
           /\ events' = Append(events, <<"generate", name>>)
           /\ requests' = Append(requests,
                  GenerateRequest(name, factsheet,
                                  IF name = "CRO" THEN outputs ELSE <<>>))
           /\ cro_prompt' = IF name = "CRO" THEN CroPrompt(factsheet, outputs)
                            ELSE cro_prompt
    /\ rc_pc' = "ensure"
    /\ UNCHANGED <<sec, outputs, report>>

\* the request for a section's draft raises and the exception leaves
\* run_committee
RcGenerateRaises ==
    /\ rc_pc = "generate"
    /\ events' = Append(events, <<"generate", SectionOrder[sec + 1]>>)
    /\ LET name == SectionOrder[sec + 1]
       IN  requests' = Append(requests,
               GenerateRequest(name, factsheet,
                               IF name = "CRO" THEN outputs ELSE <<>>))
    /\ rc_pc' = "raised"
    /\ UNCHANGED <<ev_vars, sec, outputs, cro_prompt, report>>

\* _ensure_valid has returned: buffett = ..., and so on to cro = ...
RcCollect ==
    /\ rc_pc = "ensure"
    /\ ev_pc = "done"
    /\ outputs' = Append(outputs, ev_ret)
    /\ sec' = sec + 1
    /\ rc_pc' = IF sec + 1 = Len(SectionOrder) THEN "report" ELSE "generate"
    /\ UNCHANGED <<ev_vars, events, requests, cro_prompt, report>>

\* a repair request has raised and the exception leaves run_committee
RcRepairRaised ==
    /\ rc_pc = "ensure"
    /\ ev_pc = "raised"
    /\ rc_pc' = "raised"
    /\ UNCHANGED <<ev_vars, events, requests, sec, outputs, cro_prompt, report>>

\* lines 601-635
RcReport ==
    /\ rc_pc = "report"
    /\ report' = Report(bundle, extracted, stats, factsheet, outputs)
    /\ rc_pc' = "done"
    /\ UNCHANGED <<ev_vars, events, requests, sec, outputs, cro_prompt>>

-----------------------------------------------------------------------------
(* chunk_text, formatters.py 1-17, and the posting of main, main.py        *)
(* 155-184.  A text is cut where a word of it ends; a word counts as one   *)
(* character.                                                              *)

\* main line 181: chunk_size=60000
CHUNK_SIZE == 60000

\* chunk.rfind("\n"), from 0, and -1 when there is none
rfind(chunk) ==
    LET at == {k \in 1..Len(chunk) : chunk[k] = "\n"}
    IN  IF at = {} THEN -1
        ELSE (CHOOSE k \in at : \A j \in at : j <= k) - 1

\* formatters.py line 9: int(chunk_size * 0.7); the floating-point product
\* has the exact floor for every chunk size below 90 and for 60000
CutFloor(chunk_size) == (7 * chunk_size) \div 10

\* an iteration that skips one character after a chunk that was not cut
LoopStep_SkipAfterFull(t, i, chunk_size) ==
    LET chunk == SubSeq(t, i + 1, Min2(i + chunk_size, Len(t)))
        more == i + chunk_size < Len(t)
        cut == IF more THEN rfind(chunk) ELSE -1
        cuts == more /\ cut > CutFloor(chunk_size)
    IN  [chunk |-> IF cuts THEN SubSeq(chunk, 1, cut) ELSE chunk,
         next  |-> IF cuts THEN i + cut + 1 ELSE i + chunk_size + 1]

\* formatters.py lines 6-15: one iteration of the loop at position i, from
\* 0: the chunk it appends and the position it moves to
LoopStep(t, i, chunk_size) ==
    LET chunk == SubSeq(t, i + 1, Min2(i + chunk_size, Len(t)))
        more == i + chunk_size < Len(t)
        cut == IF more THEN rfind(chunk) ELSE -1
        cuts == more /\ cut > CutFloor(chunk_size)
    IN  [chunk |-> IF cuts THEN SubSeq(chunk, 1, cut) ELSE chunk,
         next  |-> IF cuts THEN i + cut + 1 ELSE i + chunk_size]

\* formatters.py lines 5-16: the loop from position i, from 0
RECURSIVE ChunksFrom(_, _, _)
ChunksFrom(t, i, chunk_size) ==
    IF i >= Len(t) THEN <<>>
    ELSE LET step == LoopStep(t, i, chunk_size)
         IN  <<step.chunk>> \o ChunksFrom(t, step.next, chunk_size)

\* a return that keeps every chunk
NonBlankChunks_KeepAll(chunks) == chunks

\* formatters.py line 17: [c for c in chunks if c.strip()]
NonBlankChunks(chunks) == SelectSeq(chunks, LAMBDA c : strip(c) # <<>>)

\* formatters.py lines 1-17
chunk_text(t, chunk_size) == NonBlankChunks(ChunksFrom(t, 0, chunk_size))

\* a line of the factsheet as words
LineText(line) == <<line.label, ": ">> \o line.words \o <<ToString(line.num)>>

RECURSIVE LinesText(_)
LinesText(lines) ==
    IF lines = <<>> THEN <<>>
    ELSE LineText(lines[1]) \o <<"\n">> \o LinesText(Tail(lines))

\* the text of the report, agents.py 604-635: block after block
RECURSIVE ReportText(_, _)
ReportText(blocks, k) ==
    IF k > Len(blocks) THEN <<>>
    ELSE blocks[k].title \o <<"\n">>
         \o (IF k = 5 THEN LinesText(blocks[k].body) ELSE blocks[k].body)
         \o <<"\n", "\n">> \o ReportText(blocks, k + 1)

\* main line 155: the notice that the analysis is running
RunningNotice(delivered) ==
    Notice("running", <<"Running Gemini committee analysis for", TICKER>>,
           "", 0, 0, <<>>, delivered)

\* a notice that blames the fetch for a failure of run_committee
CommitteeFailedNotice_BlamesFetch(error, delivered) ==
    Notice("failure", <<"Data fetch failed for", TICKER>>, error,
           0, 0, <<>>, delivered)

\* main lines 171-178: the notice of the except branch of run_committee
CommitteeFailedNotice(error, delivered) ==
    Notice("failure", <<"Gemini analysis failed for", TICKER>>, error,
           0, 0, <<>>, delivered)

\* main lines 182-184: the comment of chunk i of n
ChunkNotice(i, n, c, delivered) ==
    Notice("chunk", <<"AI Hedge Fund Report", TICKER>>, "", i, n, c, delivered)

\* main line 155
MainAnnounce ==
    /\ rc_pc = "start"
    /\ \E delivered \in BOOLEAN :
          /\ posted' = Append(posted, RunningNotice(delivered))
          /\ rc_pc' = IF delivered THEN "fetch" ELSE "crashed"
    /\ UNCHANGED <<sec, outputs, cro_prompt>>

\* main lines 169-179: run_committee has raised
MainCommitteeFailed ==
    /\ rc_pc = "raised"
    /\ \E delivered \in BOOLEAN :
          /\ posted' = Append(posted,
                CommitteeFailedNotice(IF extracted.raised THEN "AttributeError"
                                      ELSE "generation error", delivered))
          /\ rc_pc' = IF delivered THEN "returned" ELSE "crashed"
    /\ UNCHANGED <<sec, outputs, cro_prompt>>

ChunksPosted == Len(SelectSeq(posted, LAMBDA n : n.kind = "chunk"))

\* main lines 181-184: the next chunk of the report is posted
MainPostChunk ==
    /\ rc_pc = "done"
    /\ LET chunks == chunk_text(ReportText(report, 1), CHUNK_SIZE)
           i == ChunksPosted + 1
       IN  /\ i <= Len(chunks)
           /\ \E delivered \in BOOLEAN :
                 /\ posted' = Append(posted,
                       ChunkNotice(i, Len(chunks), chunks[i], delivered))
                 /\ rc_pc' = IF ~delivered THEN "crashed"
                             ELSE IF i = Len(chunks) THEN "returned"
                             ELSE "done"
    /\ UNCHANGED <<sec, outputs, cro_prompt>>

MainFrame ==
    UNCHANGED <<ev_vars, events, requests, raw_vars, fn_vars, data_vars, report, gem_vars>>

\* the provider answers of the runs followed to the report: full data, a
\* short flat Stooq series alone, no data, an aggregates answer that is
\* not an object, and a chart answer that is not an object
CommitteeInputs ==
    { << Answer(Rows("cycle", "clean", MaxRows)), ErrorAnswer, ErrorAnswer,
         Answer(Rows("cycle", "clean", MIN_CLOSES)),
         Quote("Tesla, Inc.", "Tesla", 700, "USD", "NMS",
               "Consumer Cyclical", "Auto Manufacturers") >>,
      << ErrorAnswer, Answer(Rows("flat", "clean", (3 * MIN_CLOSES) \div 2)),
         ErrorAnswer, ErrorAnswer, NoQuote >>,
      << ErrorAnswer, ErrorAnswer, ErrorAnswer, ErrorAnswer, NoQuote >>,
      << ErrorAnswer, ErrorAnswer, ArrayAnswer, ErrorAnswer, NoQuote >>,
      << ArrayAnswer, ErrorAnswer, ErrorAnswer, ErrorAnswer, NoQuote >> }

Init ==
    /\ \E in \in CommitteeInputs :
          /\ yahoo_raw = in[1] /\ stooq_raw = in[2] /\ aggs_raw = in[3]
          /\ bench_raw = in[4] /\ quote_raw = in[5]
    /\ bundle = NoBundle /\ extracted = NoExtract
    /\ stats = NoStats /\ bench_stats = NoStats
    /\ factsheet = NoFacts /\ report = NoReport /\ posted = <<>>
    /\ fn_pc = "off" /\ fn_in = <<>> /\ fn_out = NoResult
    /\ GeminiOff
    /\ rc_pc = "start"
    /\ sec = 0 /\ outputs = <<>> /\ cro_prompt = NoPrompt
    /\ events = <<>> /\ requests = <<>>
    /\ ev_pc = "idle" /\ section_name = "" /\ required_fields = <<>>
    /\ min_bullets = 0 /\ draft = NoText /\ text = NoText
    /\ passes = 0 /\ repair_calls = 0 /\ checked = FALSE /\ ev_ret = NoText

EnsureFrame == UNCHANGED <<rc_vars, raw_vars, fn_vars, data_vars, report, gem_vars, posted>>

Next ==
    \/ MainAnnounce /\ MainFrame
    \/ MainFetch /\ DataFrame
    \/ MainFetchRaises
          /\ UNCHANGED <<ev_vars, events, requests, sec, outputs, cro_prompt, raw_vars, fn_vars,
                         report, gem_vars>>
    \/ MakeExtract /\ DataFrame
    \/ MakeExtractRaises /\ DataFrame
    \/ MakeStats /\ DataFrame
    \/ MakeFacts /\ DataFrame
    \/ RcGenerate /\ UNCHANGED <<raw_vars, fn_vars, data_vars, gem_vars, posted>>
    \/ RcGenerateRaises /\ UNCHANGED <<raw_vars, fn_vars, data_vars, gem_vars, posted>>
    \/ EnsureCheckPass /\ EnsureFrame
    \/ EnsureCheckFail /\ EnsureFrame
    \/ EnsureRepair /\ EnsureFrame
    \/ EnsureRepairRaises /\ EnsureFrame
    \/ EnsureFallThrough /\ EnsureFrame
    \/ RcCollect /\ UNCHANGED <<raw_vars, fn_vars, data_vars, gem_vars, posted>>
    \/ RcRepairRaised /\ UNCHANGED <<raw_vars, fn_vars, data_vars, gem_vars, posted>>
    \/ RcReport /\ UNCHANGED <<raw_vars, fn_vars, data_vars, gem_vars, posted>>
    \/ MainCommitteeFailed /\ MainFrame
    \/ MainPostChunk /\ MainFrame

Spec == Init /\ [][Next]_vars

-----------------------------------------------------------------------------
(* Claims about run_committee, checked under Spec.                         *)

\* the repair requests made for a section so far
RepairsOf(name) ==
    Cardinality({i \in 1..Len(events) : events[i] = <<"repair", name>>})

\* the section collected at place i ended with the repair budget spent and
\* its text still failing the check
Exhausted(i) ==
    /\ RepairsOf(SectionOrder[i]) >= MAX_REPAIR_PASSES
    /\ ~Compliant(outputs[i], RequiredFields(SectionOrder[i]),
                  MinBullets(SectionOrder[i]))

\* where the report shows the section collected at place i
ShownAt(i) == IF SectionOrder[i] = "CRO" THEN 2 ELSE 5 + i

\* the way a valid section is shown: its title, if it has one, and the bare
\* text that _ensure_valid returned
ShownAsValid(i) ==
    report[ShownAt(i)] =
        [ title |-> IF SectionOrder[i] = "CRO" THEN <<>>
                    ELSE <<"===", SectionOrder[i], "===">>,
          body  |-> outputs[i] ]

\* C4: in the final report every section that ended exhausted (repair
\* budget spent, check still failing) is marked as such, and is not shown
\* the way a valid section is shown.
C4_ExhaustedIsVisible ==
    rc_pc = "done" =>
        \A i \in 1..Len(outputs) : Exhausted(i) => ~ShownAsValid(i)

PersonaNames == {"BUFFETT", "MUNGER", "ACKMAN", "COHEN", "DALIO"}

IsSynthesisRequest(e) == e = <<"generate", "CRO">>

\* C5: when the synthesis request is issued, each of the five personas has
\* been generated and its _ensure_valid has returned, and after the
\* synthesis request no generation or repair request of a persona follows.
C5_SynthesisAfterPersonas ==
    \A i \in 1..Len(events) :
        IsSynthesisRequest(events[i]) =>
            /\ \A p \in PersonaNames :
                  \E g, r \in 1..(i - 1) :
                      /\ g < r
                      /\ events[g] = <<"generate", p>>
                      /\ events[r] = <<"returned", p>>
                      /\ \A k \in 1..Len(events) :
                            events[k] = <<"repair", p>> => g < k /\ k < r
            /\ \A j \in (i + 1)..Len(events) : events[j][2] \notin PersonaNames

\* a finished run in which the last persona needed every repair pass before
\* the synthesis was requested
C5_Witness ==
    /\ rc_pc = "done"
    /\ RepairsOf("DALIO") > MAX_REPAIR_PASSES
    /\ \E i \in 1..Len(events) : IsSynthesisRequest(events[i])

-----------------------------------------------------------------------------
(* Claims about _gemini_call, checked under SpecGemini.                    *)

\* the classes of failure that are transient: rate limit, timeout and
\* temporary unavailability
TransientClasses == {"rate_limit", "timeout", "unavailable"}

FirstResponse ==
    gc_log[CHOOSE i \in 1..Len(gc_log) :
               gc_log[i].ok /\ \A j \in 1..(i - 1) : ~gc_log[j].ok]

\* C10: an attempt is followed by another one only after a transient
\* failure; there are at most MAX_RETRIES + 1 attempts; the sleep after
\* attempt k (from 0) is BACKOFF_BASE_SECONDS * 2^k; the first response is
\* what the call returns; and when every attempt has failed the last error
\* is raised and nothing is returned.
C10_RetryOnlyTransientWithBackoff ==
    /\ \A i \in 1..(Len(gc_log) - 1) :
          ~gc_log[i].ok /\ gc_log[i].class \in TransientClasses
    /\ Len(gc_log) <= MAX_RETRIES + 1
    /\ Len(sleeps) = IF gc_pc \in {"returned", "raised"} /\ gc_log # <<>>
                     THEN Len(gc_log) - 1 ELSE Len(gc_log)
    /\ \A k \in 1..Len(sleeps) :
          sleeps[k] = BACKOFF_BASE_HALF_SECONDS * Pow2(k - 1)
    /\ gc_pc = "returned" =>
          /\ gc_log[Len(gc_log)].ok
          /\ gc_ret = strip(FirstResponse.text)
    /\ (Len(gc_log) = MAX_RETRIES + 1 /\ \A i \in 1..Len(gc_log) : ~gc_log[i].ok)
          => /\ gc_pc = "raised"
             /\ last_err = gc_log[Len(gc_log)]
             /\ gc_ret = NoText

\* a failure of generate_content that is not transient
NonTransient(e) == ~e.ok /\ e.class \notin TransientClasses

\* C22: without the credential _gemini_call makes no attempt and no sleep
\* and raises the missing-key error; a failure that is not transient is the
\* last attempt, is raised as it is, and no sleep follows it.
C22_NonTransientFailsAtOnce ==
    /\ ~has_key =>
          /\ gc_log = <<>> /\ sleeps = <<>>
          /\ gc_pc \in {"client", "raised"}
          /\ gc_pc = "raised" => last_err = MissingKey
    /\ \A i \in 1..Len(gc_log) :
          NonTransient(gc_log[i]) =>
              /\ i = Len(gc_log)
              /\ Len(sleeps) = i - 1
              /\ gc_pc = "raised"
              /\ last_err = gc_log[i]

-----------------------------------------------------------------------------
(* Claims about main, checked under Spec.                                  *)

FailureNotices == SelectSeq(posted, LAMBDA n : n.kind = "failure")
ChunkNotices == SelectSeq(posted, LAMBDA n : n.kind = "chunk")

MainEnded == rc_pc \in {"returned", "crashed"}

\* fetch_market_bundle was called and raised
FetchRaised ==
    /\ posted # <<>> /\ posted[1].delivered
    /\ rc_pc \notin {"start", "fetch"}
    /\ yahoo_raw.kind = "array" \/ bench_raw.kind = "array"

\* run_committee raised: in _extract_closes, in a repair request, or in the
\* request for a section's draft
CommitteeRaised ==
    \/ extracted.raised
    \/ ev_pc = "raised"
    \/ /\ events # <<>>
       /\ events[Len(events)][1] = "generate"
       /\ ev_pc \in {"idle", "done"}

StageNamedBy(n) ==
    CASE n.words[1] = "Data fetch failed for" -> "fetch"
      [] n.words[1] = "Gemini analysis failed for" -> "committee"
      [] OTHER -> "none"

\* C11: when fetch_market_bundle or run_committee has raised and main has
\* ended, post_comment was called with exactly one failure notice, the
\* notice names the stage that raised, it was delivered if main returned,
\* and no chunk of a report was posted.
C11_OneFailureNoticeNoChunk ==
    (MainEnded /\ (FetchRaised \/ CommitteeRaised)) =>
        /\ Len(FailureNotices) = 1
        /\ StageNamedBy(FailureNotices[1]) =
              (IF FetchRaised THEN "fetch" ELSE "committee")
        /\ rc_pc = "returned" => FailureNotices[1].delivered
        /\ ChunkNotices = <<>>

\* a run in which a repair request raised and main returned after its notice
C11_Witness ==
    /\ rc_pc = "returned"
    /\ ev_pc = "raised"
    /\ Len(FailureNotices) = 1

-----------------------------------------------------------------------------
(* Claims about the generation requests of a run, checked under Spec.      *)

\* the initial generation requests made for a section so far
GenerationsOf(name) ==
    Cardinality({i \in 1..Len(events) : events[i] = <<"generate", name>>})

\* this step issues a repair request for the section
RepairIssuedFor(name) == RepairsOf(name)' > RepairsOf(name)

\* C15: each persona receives one initial generation request in a run, never
\* a second one, and every repair request for a persona is issued right
\* after the check of that persona's current text has failed.
C15_OneGenerationThenRepairs ==
    [][\A p \in PersonaNames :
          /\ GenerationsOf(p)' <= 1
          /\ rc_pc' = "report" => GenerationsOf(p)' = 1
          /\ RepairIssuedFor(p) =>
                 /\ GenerationsOf(p) = 1
                 /\ section_name = p
                 /\ checked
                 /\ ~Compliant(text, required_fields, min_bullets)]_vars

\* a finished run in which a persona was repaired
C15_Witness ==
    /\ rc_pc = "done"
    /\ \A p \in PersonaNames : GenerationsOf(p) = 1
    /\ \E p \in PersonaNames : RepairsOf(p) >= 1

\* the text the report shows for the section collected at place i
ShownText(i) == report[ShownAt(i)].body

\* the report shows the section collected at place i with a text that
\* fails the check of its call of _ensure_valid
ShownFailing(i) ==
    /\ report # NoReport
    /\ ~Compliant(ShownText(i), RequiredFields(SectionOrder[i]),
                  MinBullets(SectionOrder[i]))

\* C17: a section that the final report shows with a text failing the check
\* has had at least MAX_REPAIR_PASSES repair requests made for it.
C17_FailingSectionSpentBudget ==
    \A i \in 1..Len(SectionOrder) :
        ShownFailing(i) => RepairsOf(SectionOrder[i]) >= MAX_REPAIR_PASSES

\* a report with a persona section that still fails the check
C17_Witness ==
    /\ rc_pc = "done"
    /\ \E i \in 1..Len(SectionOrder) :
          /\ SectionOrder[i] \in PersonaNames
          /\ ShownFailing(i)
          /\ RepairsOf(SectionOrder[i]) >= MAX_REPAIR_PASSES

\* the text declares the value on the line of the label
Declares(t, label, value) ==
    \E k \in 1..(Len(t) - 2) : t[k] = label /\ t[k + 2] = value

\* cro_raw, once the report is built: the frame of the last call of
\* _ensure_valid is the one of CRO
SynthesisDraft == draft

SynthesisDone == report # NoReport /\ section_name = "CRO"

\* C18: a synthesis output with every required label and at least 6 bullets
\* is in the report unchanged, with no repair request made for it, whatever
\* the data quality and whatever decision and size it declares.
C18_SynthesisAcceptedUnchanged ==
    (SynthesisDone /\ Compliant(SynthesisDraft, RequiredFields("CRO"),
                                MinBullets("CRO"))) =>
        /\ ShownText(Len(SectionOrder)) = SynthesisDraft
        /\ RepairsOf("CRO") = 0

\* a report on LOW data whose synthesis declares IMPLEMENT and 5.0%
C18_Witness ==
    /\ rc_pc = "done" /\ section_name = "CRO"
    /\ ~stats.ok
    /\ StartsWithLow(FactLine("DATA_QUALITY"))
    /\ RepairsOf("CRO") = 0
    /\ ShownText(Len(SectionOrder)) = SynthesisDraft
    /\ Declares(ShownText(Len(SectionOrder)), "PORTFOLIO DECISION:", "IMPLEMENT")
    /\ Declares(ShownText(Len(SectionOrder)), "FINAL POSITION SIZE:", "5.0%")

\* the factsheet block of the report
ShownFactsheet == report[5].body

\* C20: in one run every persona request, every repair request and the
\* synthesis request embed the factsheet that _make_factsheet returned, the
\* report shows that same factsheet, and the factsheet does not change once
\* a request has been issued.
C20_OneFactsheet ==
    /\ [](/\ \A k \in 1..Len(requests) : requests[k].factsheet = factsheet
          /\ report # NoReport => ShownFactsheet = factsheet)
    /\ [][requests # <<>> => factsheet' = factsheet]_vars

\* a finished run with persona, repair and synthesis requests that all
\* embed the factsheet the report shows
C20_Witness ==
    /\ rc_pc = "done"
    /\ factsheet # NoFacts
    /\ ShownFactsheet = factsheet
    /\ \E k \in 1..Len(requests) : requests[k].kind = "repair"
    /\ \E k \in 1..Len(requests) : requests[k].section = "CRO"
    /\ \A k \in 1..Len(requests) : requests[k].factsheet = ShownFactsheet

\* the titles of the blocks of a report, without the rule and the heading
\* of the full committee outputs
BlockOrder ==
    << <<"##", TICKER, "Gemini Committee Report">>,
       <<>>,
       <<"===", "FACTSHEET (CLEAN INPUT)", "===">>,
       <<"===", "BUFFETT", "===">>, <<"===", "MUNGER", "===">>,
       <<"===", "ACKMAN", "===">>, <<"===", "COHEN", "===">>,
       <<"===", "DALIO", "===">> >>

\* the blocks of the report that carry a text, in the order of the report
TextBlocks ==
    SelectSeq(report, LAMBDA b : b.title \notin {<<"---">>, <<"##", "Full Committee Outputs">>})

\* this step collects what a call of _ensure_valid returned
Collected == Len(outputs') > Len(outputs)

\* C21: every section text that run_committee keeps is the text its call of
\* _ensure_valid returned; the synthesis request is given the five persona
\* texts as kept; and the report shows, in this order, the header, the
\* synthesis block, the factsheet and the texts of BUFFETT, MUNGER, ACKMAN,
\* COHEN and DALIO as kept.
C21_ReportShowsValidatedTexts ==
    /\ [][Collected => (ev_pc = "done" /\ outputs' = Append(outputs, ev_ret))]_vars
    /\ [](report # NoReport =>
            /\ cro_prompt.committee = SubSeq(outputs, 1, 5)
            /\ [k \in 1..Len(TextBlocks) |-> TextBlocks[k].title] = BlockOrder
            /\ TextBlocks[2].body = outputs[6]
            /\ TextBlocks[3].body = factsheet
            /\ \A i \in 1..5 : TextBlocks[3 + i].body = outputs[i])

\* a report whose personas include one that was repaired and one that was
\* returned still failing the check
C21_Witness ==
    /\ rc_pc = "done"
    /\ cro_prompt.committee = SubSeq(outputs, 1, 5)
    /\ \E i \in 1..5 : ShownFailing(i) /\ ShownText(i) = outputs[i]
    /\ \E i \in 1..5 : ~ShownFailing(i) /\ RepairsOf(SectionOrder[i]) > 0

\* the value that the header of the report shows after a caption
HeaderValue(caption) ==
    LET h == report[1].body
    IN  h[1 + CHOOSE i \in 1..Len(h) : h[i] = caption]

\* the line of the factsheet block of the report with a label
ShownLabels == {ShownFactsheet[i].label : i \in 1..Len(ShownFactsheet)}
ShownLine(label) ==
    ShownFactsheet[CHOOSE i \in 1..Len(ShownFactsheet) :
                       ShownFactsheet[i].label = label]

\* the statistics of the subject have been computed
StatsComputed == "ok" \in DOMAIN stats

\* C25: the data-quality labels of a run agree: the subject's statistics are
\* ok exactly when the price provenance is not "none", and then n_points is
\* between 10 and 30; the header of the report says OK exactly when the
\* DATA_QUALITY line of the factsheet says OK; the header's vol regime is
\* the factsheet's VOL_REGIME when the statistics are ok, else UNKNOWN.
C25_QualityLabelsAgree ==
    /\ StatsComputed =>
          /\ stats.ok <=> extracted.source # "none"
          /\ stats.ok => stats.n_points \in MIN_CLOSES..WINDOW
    /\ report # NoReport =>
          /\ HeaderValue("Data quality:") \in {"OK", "LOW"}
          /\ HeaderValue("Data quality:") = "OK"
                <=> ShownLine("DATA_QUALITY").words[1] = "OK:"
          /\ HeaderValue("Data quality:") = "OK" <=> stats.ok
          /\ HeaderValue("Price source:") = extracted.source
          /\ stats.ok =>
                /\ "VOL_REGIME" \in ShownLabels
                /\ HeaderValue("Vol regime:") = ShownLine("VOL_REGIME").words[1]
          /\ ~stats.ok => HeaderValue("Vol regime:") = "UNKNOWN"

\* a report on ok statistics whose header shows the regime of the factsheet
C25_Witness ==
    /\ report # NoReport
    /\ stats.ok /\ extracted.source # "none"
    /\ HeaderValue("Data quality:") = "OK"
    /\ ShownLine("DATA_QUALITY").words[1] = "OK:"
    /\ HeaderValue("Vol regime:") = ShownLine("VOL_REGIME").words[1]
    /\ HeaderValue("Vol regime:") # "UNKNOWN"

-----------------------------------------------------------------------------
(* Claims about the requests of _ensure_valid, checked under SpecEnsure.   *)

\* _ensure_valid with every step that can be taken eventually taken: each
\* generation call returns or raises
SpecEnsureFair == SpecEnsure /\ WF_vars(NextEnsure)

\* _ensure_valid returns or raises
EnsureTerminates == <>(ev_pc \in {"done", "raised"})

\* what _ensure_valid returns is the draft it was given, trimmed, or what
\* the most recent repair call returned
ReturnsDraftOrLastRepair ==
    ev_pc = "done" =>
        ev_ret = IF repair_calls = 0 THEN strip(draft)
                 ELSE requests[Len(requests)].reply

\* C16: _ensure_valid makes at most MAX_REPAIR_PASSES repair calls, and
\* what it returns is the initial draft (trimmed) or the output of the most
\* recent repair call.
C16_RepairsWithinBudget ==
    /\ repair_calls <= MAX_REPAIR_PASSES
    /\ ReturnsDraftOrLastRepair

\* C19: the first repair request of a call of _ensure_valid carries the
\* draft the call was given (trimmed, as line 343 keeps it), each later one
\* carries what the repair request before it returned, and every one carries
\* the section name, the required fields and the minimum bullet count of the
\* call.
C19_RepairCarriesCurrentDraft ==
    \A k \in 1..Len(requests) :
        /\ requests[k].kind = "repair"
        /\ requests[k].draft = IF k = 1 THEN strip(draft)
                               ELSE requests[k - 1].reply
        /\ requests[k].section = section_name
        /\ requests[k].required_fields = required_fields
        /\ requests[k].min_bullets = min_bullets

\* a second repair request that carries the first repair output, which is
\* not the draft the call was given
C19_Witness ==
    /\ Len(requests) >= 2
    /\ requests[1].draft = strip(draft)
    /\ requests[2].draft = requests[1].reply
    /\ requests[2].draft # strip(draft)

-----------------------------------------------------------------------------
(* chunk_text, formatters.py 1-17, applied to one text, one iteration of   *)
(* its loop at a time.  Here a token is one character.                     *)

\* the largest chunk size tried, the longest text of letters and line
\* breaks, and the longest text that also has blanks: a chunk of 7 can be
\* cut before its last character, and a text of 9 cut at 4 leaves 3 chunks
MaxChunkSize == 7
MaxChunkText == 9
MaxBlankText == 6

RECURSIVE TextsOver(_, _)
TextsOver(alphabet, n) ==
    IF n = 0 THEN {<<>>}
    ELSE {Append(t, c) : t \in TextsOver(alphabet, n - 1), c \in alphabet}

\* texts of a letter and a line break, and shorter ones with a blank too
ChunkTexts ==
    UNION {TextsOver({"a", "\n"}, k) : k \in 0..MaxChunkText}
    \cup UNION {TextsOver({"a", " ", "\n"}, k) : k \in 0..MaxBlankText}

\* the calls tried: every text with every chunk_size from 1 to MaxChunkSize
ChunkInputs ==
    {[text |-> t, chunk_size |-> n] :
        t \in ChunkTexts, n \in 1..MaxChunkSize}

\* lines 3-4: chunks = [], i = 0; starts lists the value of i at the start
\* of every iteration
ChunkStart == [fn |-> "chunk_text", i |-> 0, starts |-> <<>>,
               chunks |-> <<>>, value |-> <<>>]

\* lines 5-16: one iteration of the while loop
ChunkIterate ==
    /\ fn_pc = "loop"
    /\ fn_out.i < Len(fn_in.text)
    /\ LET step == LoopStep(fn_in.text, fn_out.i, fn_in.chunk_size)
       IN  fn_out' = [fn_out EXCEPT !.i = step.next,
                                    !.starts = Append(@, fn_out.i),
                                    !.chunks = Append(@, step.chunk)]
    /\ UNCHANGED <<fn_pc, fn_in>>

\* lines 5 and 17: the loop ends and the chunks that are not blank return
ChunkReturn ==
    /\ fn_pc = "loop"
    /\ fn_out.i >= Len(fn_in.text)
    /\ fn_out' = [fn_out EXCEPT !.value = NonBlankChunks(fn_out.chunks)]
    /\ fn_pc' = "returned"
    /\ UNCHANGED fn_in

InitChunk ==
    /\ fn_pc = "loop" /\ fn_in \in ChunkInputs /\ fn_out = ChunkStart
    /\ ev_pc = "idle" /\ section_name = ""
    /\ required_fields = <<>> /\ min_bullets = 0
    /\ draft = NoText /\ text = NoText /\ passes = 0 /\ repair_calls = 0
    /\ checked = FALSE /\ ev_ret = NoText /\ events = <<>> /\ requests = <<>>
    /\ rc_pc = "off" /\ sec = 0 /\ outputs = <<>> /\ cro_prompt = NoPrompt
    /\ yahoo_raw = ErrorAnswer /\ stooq_raw = ErrorAnswer
    /\ aggs_raw = ErrorAnswer /\ bench_raw = ErrorAnswer /\ quote_raw = NoQuote
    /\ bundle = NoBundle /\ extracted = NoExtract
    /\ stats = NoStats /\ bench_stats = NoStats
    /\ factsheet = NoFacts /\ report = NoReport /\ posted = <<>>
    /\ GeminiOff

NextChunk ==
    \/ ChunkIterate /\ StatsFrame
    \/ ChunkReturn /\ StatsFrame

\* the function is sequential code: an iteration that can run does run
SpecChunk == InitChunk /\ [][NextChunk]_vars /\ WF_vars(NextChunk)

-----------------------------------------------------------------------------
(* Claims about chunk_text, checked under SpecChunk.                       *)

ChunkingReturned == fn_pc = "returned"

\* a chunk without any character that is not whitespace
Blank(c) == \A j \in 1..Len(c) : c[j] \in Whitespace

\* the call is the one chunk_text computes in one go
ChunkLoopIsChunkText ==
    ChunkingReturned =>
        fn_out.value = chunk_text(fn_in.text, fn_in.chunk_size)

\* C26: for every text and every chunk_size of at least 1, chunk_text
\* terminates, every chunk it returns is at most chunk_size long, and no
\* chunk it returns is empty or made of whitespace only.
C26_TerminatesWithBoundedSolidChunks ==
    /\ <>ChunkingReturned
    /\ [](ChunkingReturned =>
            \A k \in 1..Len(fn_out.value) :
                /\ Len(fn_out.value[k]) <= fn_in.chunk_size
                /\ fn_out.value[k] # <<>>
                /\ ~Blank(fn_out.value[k]))

\* a call that cut a chunk at a line break before its last character and
\* returned two chunks
C26_Witness ==
    /\ ChunkingReturned
    /\ Len(fn_out.value) >= 2
    /\ \E k \in 1..(Len(fn_out.chunks) - 1) :
          Len(fn_out.chunks[k]) + 1 < fn_in.chunk_size

\* C27: chunk_text loses no content and keeps the order: the chunks of the
\* loop are consecutive segments of the text that do not overlap, from its
\* start to its end; between two of them at most the one line break of a cut
\* is left out; the chunks returned are those of the loop, in order, without
\* the ones made of whitespace only.
C27_ConsecutiveSegments ==
    ChunkingReturned =>
        LET t == fn_in.text
            raw == fn_out.chunks
            at == fn_out.starts
            n == Len(raw)
            End(k) == at[k] + Len(raw[k])
        IN  /\ Len(at) = n
            /\ n = 0 <=> t = <<>>
            /\ n > 0 => at[1] = 0 /\ End(n) = Len(t)
            /\ \A k \in 1..n : raw[k] = SubSeq(t, at[k] + 1, End(k))
            /\ \A k \in 1..(n - 1) :
                  \/ at[k + 1] = End(k)
                  \/ at[k + 1] = End(k) + 1 /\ t[End(k) + 1] = "\n"
            /\ fn_out.value = SelectSeq(raw, LAMBDA c : ~Blank(c))

\* a call that left out the line break of a cut, went on after a chunk that
\* was not cut, and dropped a chunk of whitespace
C27_Witness ==
    /\ ChunkingReturned
    /\ Len(fn_out.chunks) >= 3
    /\ \E k \in 1..(Len(fn_out.chunks) - 1) :
          fn_out.starts[k + 1] = fn_out.starts[k] + Len(fn_out.chunks[k]) + 1
    /\ \E k \in 1..(Len(fn_out.chunks) - 1) :
          /\ fn_out.starts[k + 1] = fn_out.starts[k] + Len(fn_out.chunks[k])
          /\ fn_out.chunks[k] # <<>>
    /\ \E k \in 1..Len(fn_out.chunks) : Blank(fn_out.chunks[k])
    /\ fn_out.value # <<>>

====
